---- MODULE Spec2Model ----
(***************************************************************************)
(* Market Analysis Engine of futures-market-tracker: the cooldown-gated    *)
(* alert dispatcher (AlertService), the breakout detector's own cooldown,  *)
(* the periodic analysis scheduler (MarketDataService), the tick stream    *)
(* (WebSocketService) and the shared Market State Store (marketState$).    *)
(*                                                                         *)
(* Time is counted in units of 15 seconds: a cooldown of 30 000 ms is 2.   *)
(* The repository holds several iterations of the same classes; `build`    *)
(* says which iteration, or which service, a behaviour is of.              *)
(***************************************************************************)
EXTENDS Integers, Sequences, FiniteSets, TLC

VARIABLES
  now,                \* Date.now(), in units of 15 s
  build,              \* the class iteration or service in use
  lastAlerts,         \* AlertService.lastAlerts: symbol -> last emitted alert
  lastBreakoutAlerts, \* BreakoutDetector.lastBreakoutAlerts: symbol -> last alert
  alertStream,        \* alertStream$ (BehaviorSubject): <<>> is null
  breakoutAlerts,     \* breakoutAlerts$ (BehaviorSubject): the array of alerts
  events,             \* history: the candidates handed to handleAlerts; in the socket
                      \* build, the messages received since the last flush
  marketState,        \* marketState$ (BehaviorSubject): symbol -> MarketState
  cycles,             \* the analyzeSymbol calls in flight, in the order they started
  due,                \* the symbols whose interval() fires at this instant
  streamAlive,        \* analysed symbol -> its interval() subscription has not completed
  marketSignals,      \* marketSignals$ (BehaviorSubject): <<>> is null
  messageQueue,       \* WebSocketService.messageQueue (a Set, in insertion order)
  started,            \* the number of analyzeSymbol calls made so far
  sockets,            \* the WebSockets not yet closed: [state, current], current = (this.ws is it)
  reconnectAttempts,  \* WebSocketService.reconnectAttempts
  reconnectTimers,    \* pending reconnect timeouts: [attempt, delay, handle], handle = (this.reconnectTimer is it)
  connectionStatus,   \* connectionStatus$ (BehaviorSubject)
  processing,         \* the message processor's setInterval is live
  updateIntervals,    \* MarketDataManager.updateIntervals: the keys holding a timer
  timers,             \* the live setInterval timers of the manager: key -> how many
  pending,            \* the manager's async calls in flight
  stopped,            \* cleanup() has been called
  requests,           \* RateLimiter.requests
  lastReset,          \* RateLimiter.lastReset
  admissions,         \* history: the times at which checkLimit returned true
  upstreams,          \* proxy WebSocketHandler: the upstream sockets not yet closed:
                      \* [id, state, current], current = (this.binanceWs is it)
  heartbeats,         \* proxy WebSocketHandler: the live heartbeat intervals:
                      \* [for, held], held = (this.heartbeatInterval is it)
  clientOpen,         \* proxy: the client's socket has not closed
  lastVolatilityCheck,      \* MomentumDetector.lastVolatilityCheck
  currentVolatilityProfile, \* MomentumDetector.currentVolatilityProfile
  candles,            \* the candles the signal detectors are given: the window handed
                      \* to detectSignal; in the momentum build, the annualized
                      \* volatility of each symbol's daily candles; in the cross
                      \* build, what detectBreakout reads off its window
  computed            \* history: the results the signal detectors returned

serviceVars == <<marketState, cycles, due, streamAlive, marketSignals, messageQueue, started>>

connectionVars == <<sockets, reconnectAttempts, reconnectTimers, connectionStatus, processing>>

managerVars == <<updateIntervals, timers, pending, stopped>>

limiterVars == <<requests, lastReset, admissions>>

proxyVars == <<upstreams, heartbeats, clientOpen>>

signalVars == <<lastVolatilityCheck, currentVolatilityProfile, candles, computed>>

vars == <<now, build, lastAlerts, lastBreakoutAlerts, alertStream, breakoutAlerts, events,
          marketState, cycles, due, streamAlive, marketSignals, messageQueue, started,
          sockets, reconnectAttempts, reconnectTimers, connectionStatus, processing,
          updateIntervals, timers, pending, stopped, requests, lastReset, admissions,
          upstreams, heartbeats, clientOpen, lastVolatilityCheck, currentVolatilityProfile, candles,
          computed>>

----------------------------------------------------------------------------
(* Bounds of the model *)

MaxTime == 4

MaxEvents == 3

MaxCycles == 2

MaxQueue == 2

(* Program configuration *)

Symbols == {"BTCUSDT", "ETHUSDT"}

Configs == <<"5m", "1h">>

Timeframes == {Configs[i] : i \in DOMAIN Configs}

BreakoutCooldown == 2

alertCooldown == BreakoutCooldown

getAlertCooldown == 2

ThresholdShort == 3

ThresholdMedium == 5

ThresholdLarge == 7

ThresholdExtreme == 10

UpdateFrequency == 2

AlertBuilds == {"stream", "subject"}

DetectorBuilds == {"band", "move"}

----------------------------------------------------------------------------
(* Records with optional keys (Record<string, T>) are functions on the set *)
(* of keys present.                                                        *)

Put(m, k, v) == [x \in DOMAIN m \cup {k} |-> IF x = k THEN v ELSE m[x]]

EmptyRecord == [x \in {} |-> 0]

----------------------------------------------------------------------------
(* BreakoutDetector *)

getBreakoutThreshold(percentageMove) ==
  IF percentageMove >= ThresholdExtreme THEN "extreme"
  ELSE IF percentageMove >= ThresholdLarge THEN "large"
  ELSE IF percentageMove >= ThresholdMedium THEN "medium"
  ELSE IF percentageMove >= ThresholdShort THEN "short"
  ELSE "null"

InCooldownStrict(record, symbol, t, cooldown) ==
  symbol \in DOMAIN record /\ t - record[symbol].timestamp < cooldown - 1

InCooldown(record, symbol, t, cooldown) ==
  symbol \in DOMAIN record /\ t - record[symbol].timestamp < cooldown

(* What a candle window amounts to for the band detector: whether it has   *)
(* BOLLINGER_PERIOD + 2 candles, the band crossing of the last close, the  *)
(* three confirmations, the move of the last close and whether             *)
(* detectBullishSignals finds the window bullish.                          *)
Moves == {2, 10}

KlineCase(enough, priceBreakout, volume, trend, volatility, percentageMove, bullish) ==
  [enough |-> enough, priceBreakout |-> priceBreakout, volumeConfirmation |-> volume,
   trendConfirmation |-> trend, volatilityConfirmation |-> volatility,
   percentageMove |-> percentageMove, bullishSignal |-> bullish]

KlineCases ==
  { KlineCase(FALSE, "up", TRUE, TRUE, TRUE, 10, FALSE),    \* a jump, too few candles
    KlineCase(FALSE, "none", TRUE, TRUE, TRUE, 2, TRUE),    \* too few candles, bullish
    KlineCase(TRUE, "none", TRUE, TRUE, TRUE, 2, FALSE),    \* inside the band
    KlineCase(TRUE, "none", TRUE, TRUE, TRUE, 2, TRUE),     \* inside the band, bullish
    KlineCase(TRUE, "up", TRUE, TRUE, TRUE, 10, FALSE),     \* confirmed jump
    KlineCase(TRUE, "down", TRUE, TRUE, TRUE, 2, FALSE),    \* confirmed, small move
    KlineCase(TRUE, "up", FALSE, TRUE, TRUE, 10, FALSE),    \* no volume confirmation
    KlineCase(TRUE, "down", TRUE, FALSE, TRUE, 10, FALSE),  \* against the trend
    KlineCase(TRUE, "up", TRUE, TRUE, FALSE, 10, FALSE) }   \* no volatility expansion

isValidBreakout(k) ==
  /\ k.priceBreakout \in {"up", "down"}
  /\ k.volumeConfirmation
  /\ k.trendConfirmation
  /\ k.volatilityConfirmation

(* detectBreakout of the band detector: the alert found (a sequence of at  *)
(* most one) and the detector's lastBreakoutAlerts afterwards.             *)
detectBreakoutNoCooldown(lba, symbol, k, timeframe, t) ==
  IF ~k.enough THEN [alert |-> <<>>, lba |-> lba]
  ELSE IF isValidBreakout(k)
    THEN LET a == [symbol |-> symbol, timestamp |-> t,
                   breakoutType |-> getBreakoutThreshold(k.percentageMove)]
         IN [alert |-> <<a>>, lba |-> Put(lba, symbol, a)]
  ELSE [alert |-> <<>>, lba |-> lba]

detectBreakout(lba, symbol, k, timeframe, t) ==
  IF ~k.enough THEN [alert |-> <<>>, lba |-> lba]
  ELSE IF InCooldown(lba, symbol, t, BreakoutCooldown) THEN [alert |-> <<>>, lba |-> lba]
  ELSE IF isValidBreakout(k)
    THEN LET a == [symbol |-> symbol, timestamp |-> t,
                   breakoutType |-> getBreakoutThreshold(k.percentageMove)]
         IN [alert |-> <<a>>, lba |-> Put(lba, symbol, a)]
  ELSE [alert |-> <<>>, lba |-> lba]

(* detectBreakout of the move detector (first close against last close of  *)
(* the window): the threshold is checked before the cooldown.              *)
MoveCases == { k \in [empty : BOOLEAN, percentageMove : Moves] : k.empty => k.percentageMove = 2 }

detectBreakoutMove(lba, symbol, k, timeframe, t) ==
  IF getBreakoutThreshold(k.percentageMove) = "null" THEN [alert |-> <<>>, lba |-> lba]
  ELSE IF InCooldown(lba, symbol, t, BreakoutCooldown) THEN [alert |-> <<>>, lba |-> lba]
  ELSE LET a == [symbol |-> symbol, timestamp |-> t,
                 breakoutType |-> getBreakoutThreshold(k.percentageMove)]
       IN [alert |-> <<a>>, lba |-> Put(lba, symbol, a)]

----------------------------------------------------------------------------
(* AlertService, the iteration that emits to alertStream$.  A dispatcher   *)
(* state d is [lastAlerts, lba, alertStream, breakoutAlerts, emitted].     *)

emitAlertNoStamp(d, alert) ==
  [d EXCEPT !.alertStream = <<alert>>,
            !.emitted = d.emitted + 1]

emitAlert(d, alert) ==
  [d EXCEPT !.lastAlerts = Put(d.lastAlerts, alert.symbol, alert),
            !.alertStream = <<alert>>,
            !.emitted = d.emitted + 1]

handleAlerts(d, symbol, k, timeframe, t) ==
  IF InCooldown(d.lastAlerts, symbol, t, alertCooldown) THEN d
  ELSE LET r == detectBreakout(d.lba, symbol, k, timeframe, t)
       IN IF r.alert # <<>> THEN emitAlert([d EXCEPT !.lba = r.lba], r.alert[1])
          ELSE IF k.bullishSignal
            THEN emitAlert(d, [symbol |-> symbol, timestamp |-> t, breakoutType |-> "short"])
          ELSE d

----------------------------------------------------------------------------
(* AlertService, the iteration that takes the MarketSignal and keeps its   *)
(* own breakoutAlerts$ subject.                                            *)

SignalCases ==
  { m \in [isValid : BOOLEAN, signals : SUBSET Timeframes, timestamp : {0, 1}] :
      m.timestamp = 0 => m.isValid /\ m.signals = Timeframes }

isValidMarketSignal(marketSignal) ==
  marketSignal.isValid /\ marketSignal.signals # {} /\ marketSignal.timestamp > 0

emitAlertSubject(d, alert) ==
  [d EXCEPT !.lastAlerts = Put(d.lastAlerts, alert.symbol, alert),
            !.breakoutAlerts = Append(d.breakoutAlerts, alert),
            !.emitted = d.emitted + 1]

processTimeframeAlert(d, symbol, k, marketSignal, timeframe, t) ==
  IF timeframe \notin marketSignal.signals \/ k.empty THEN d
  ELSE LET r == detectBreakoutMove(d.lba, symbol, k, timeframe, t)
       IN IF r.alert # <<>> THEN emitAlertSubject([d EXCEPT !.lba = r.lba], r.alert[1])
          ELSE d

RECURSIVE forEachConfig(_, _, _, _, _, _)
forEachConfig(d, symbol, klines, marketSignal, i, t) ==
  IF i > Len(Configs) THEN d
  ELSE forEachConfig(
         processTimeframeAlert(d, symbol, klines[Configs[i]], marketSignal, Configs[i], t),
         symbol, klines, marketSignal, i + 1, t)

handleAlertsSignalStampFirst(d, symbol, klines, marketSignal, t) ==
  LET stamped == [d EXCEPT !.lastAlerts =
                     Put(d.lastAlerts, symbol,
                         [symbol |-> symbol, timestamp |-> t, breakoutType |-> "null"])]
  IN IF InCooldown(d.lastAlerts, symbol, t, getAlertCooldown) THEN d
     ELSE IF ~isValidMarketSignal(marketSignal) THEN stamped
     ELSE forEachConfig(stamped, symbol, klines, marketSignal, 1, t)

handleAlertsSignal(d, symbol, klines, marketSignal, t) ==
  IF ~isValidMarketSignal(marketSignal) THEN d
  ELSE IF InCooldown(d.lastAlerts, symbol, t, getAlertCooldown) THEN d
  ELSE forEachConfig(d, symbol, klines, marketSignal, 1, t)

----------------------------------------------------------------------------
(* The dispatcher's state as the operators above take it *)

Dispatcher ==
  [lastAlerts |-> lastAlerts, lba |-> lastBreakoutAlerts, alertStream |-> alertStream,
   breakoutAlerts |-> breakoutAlerts, emitted |-> 0]

Commit(d) ==
  /\ lastAlerts' = d.lastAlerts
  /\ lastBreakoutAlerts' = d.lba
  /\ alertStream' = d.alertStream
  /\ breakoutAlerts' = d.breakoutAlerts

(* Validity gating of a candidate, whatever the cooldown says *)
PassesValidity(k) == (k.enough /\ isValidBreakout(k)) \/ k.bullishSignal

PassesValiditySignal(klines, marketSignal) ==
  /\ isValidMarketSignal(marketSignal)
  /\ \E tf \in Timeframes :
       /\ tf \in marketSignal.signals
       /\ ~klines[tf].empty
       /\ getBreakoutThreshold(klines[tf].percentageMove) # "null"

Logged(symbol, valid, forwarded) ==
  Append(events, [symbol |-> symbol, time |-> now, valid |-> valid, forwarded |-> forwarded])

InitConnectionIdle ==
  /\ sockets = <<>>
  /\ reconnectAttempts = 0
  /\ reconnectTimers = <<>>
  /\ connectionStatus = FALSE
  /\ processing = TRUE

(* MarketDataManager: the intervals it has set and the async calls in     *)
(* flight.  A key names what an interval calls: updateMarketMetrics for a  *)
(* (symbol, timeframe) pair, or the momentum callback of a symbol.         *)
MetricsKey(symbol, timeframe) == <<"metrics", symbol, timeframe>>

MomentumKey(symbol) == <<"momentum", symbol, "all">>

ManagerCoins == {"BTCUSDT"}

Pairs == {MetricsKey(symbol, Configs[i]) : symbol \in ManagerCoins, i \in DOMAIN Configs}

TimerKeys == Pairs \cup {MomentumKey(symbol) : symbol \in ManagerCoins}

InitManagerIdle ==
  /\ updateIntervals = {}
  /\ timers = [key \in TimerKeys |-> 0]
  /\ pending = [key \in TimerKeys |-> 0]
  /\ stopped = FALSE

InitLimiterIdle ==
  /\ requests = 0
  /\ lastReset = 0
  /\ admissions = <<>>

EnvironmentUpdateFrequency == 1

InitProxyIdle ==
  /\ upstreams = <<>>
  /\ heartbeats = <<>>
  /\ clientOpen = FALSE

(* new MomentumDetector(): lastVolatilityCheck = 0, long before Date.now() *)
InitSignalIdle ==
  /\ lastVolatilityCheck = 0 - EnvironmentUpdateFrequency
  /\ currentVolatilityProfile = "medium"
  /\ candles = <<>>
  /\ computed = <<>>

InitServiceIdle ==
  /\ InitConnectionIdle
  /\ InitManagerIdle
  /\ InitLimiterIdle
  /\ InitProxyIdle
  /\ InitSignalIdle
  /\ marketState = EmptyRecord
  /\ cycles = <<>>
  /\ due = {}
  /\ streamAlive = [s \in Symbols |-> TRUE]
  /\ marketSignals = <<>>
  /\ messageQueue = <<>>
  /\ started = 0

InitAlertState ==
  /\ now = 0
  /\ lastAlerts = EmptyRecord
  /\ lastBreakoutAlerts = EmptyRecord
  /\ alertStream = <<>>
  /\ breakoutAlerts = <<>>
  /\ events = <<>>
  /\ InitServiceIdle

(* Date.now() advances *)
Tick ==
  /\ now < MaxTime
  /\ now' = now + 1
  /\ UNCHANGED <<build, lastAlerts, lastBreakoutAlerts, alertStream, breakoutAlerts, events>>
  /\ UNCHANGED serviceVars
  /\ UNCHANGED <<connectionVars, managerVars, limiterVars, proxyVars, signalVars>>

(* AlertService.handleAlerts(symbol, klines, marketMetrics, tickerData, config) *)
HandleAlerts(symbol, k, timeframe) ==
  /\ build = "stream"
  /\ Len(events) < MaxEvents
  /\ LET d == handleAlerts(Dispatcher, symbol, k, timeframe, now)
     IN /\ Commit(d)
        /\ events' = Logged(symbol, PassesValidity(k), d.emitted)
  /\ UNCHANGED <<now, build>>
  /\ UNCHANGED serviceVars
  /\ UNCHANGED <<connectionVars, managerVars, limiterVars, proxyVars, signalVars>>

(* AlertService.handleAlerts(symbol, klines, marketSignal, configs) *)
HandleAlertsSignal(symbol, klines, marketSignal) ==
  /\ build = "subject"
  /\ Len(events) < MaxEvents
  /\ LET d == handleAlertsSignal(Dispatcher, symbol, klines, marketSignal, now)
     IN /\ Commit(d)
        /\ events' = Logged(symbol, PassesValiditySignal(klines, marketSignal), d.emitted)
  /\ UNCHANGED <<now, build>>
  /\ UNCHANGED serviceVars
  /\ UNCHANGED <<connectionVars, managerVars, limiterVars, proxyVars, signalVars>>

InitAlert == build \in AlertBuilds /\ InitAlertState

NextAlert ==
  \/ Tick
  \/ \E symbol \in Symbols, k \in KlineCases, timeframe \in Timeframes :
       HandleAlerts(symbol, k, timeframe)
  \/ \E symbol \in Symbols, klines \in [Timeframes -> MoveCases], marketSignal \in SignalCases :
       HandleAlertsSignal(symbol, klines, marketSignal)

SpecAlert == InitAlert /\ [][NextAlert]_vars

----------------------------------------------------------------------------
(* The breakout detector called directly, as MarketDataService.analyzeSymbol *)
(* calls it once per timeframe.                                            *)

DetectBreakout(symbol, k, timeframe) ==
  /\ build = "band"
  /\ Len(events) < MaxEvents
  /\ LET r == detectBreakout(lastBreakoutAlerts, symbol, k, timeframe, now)
     IN /\ lastBreakoutAlerts' = r.lba
        /\ events' = Logged(symbol, k.enough /\ isValidBreakout(k), Len(r.alert))
  /\ UNCHANGED <<now, build, lastAlerts, alertStream, breakoutAlerts>>
  /\ UNCHANGED serviceVars
  /\ UNCHANGED <<connectionVars, managerVars, limiterVars, proxyVars, signalVars>>

DetectBreakoutMove(symbol, k, timeframe) ==
  /\ build = "move"
  /\ Len(events) < MaxEvents
  /\ ~k.empty
  /\ LET r == detectBreakoutMove(lastBreakoutAlerts, symbol, k, timeframe, now)
     IN /\ lastBreakoutAlerts' = r.lba
        /\ events' = Logged(symbol, getBreakoutThreshold(k.percentageMove) # "null", Len(r.alert))
  /\ UNCHANGED <<now, build, lastAlerts, alertStream, breakoutAlerts>>
  /\ UNCHANGED serviceVars
  /\ UNCHANGED <<connectionVars, managerVars, limiterVars, proxyVars, signalVars>>

InitDetector == build \in DetectorBuilds /\ InitAlertState

NextDetector ==
  \/ Tick
  \/ \E symbol \in Symbols, k \in KlineCases, timeframe \in Timeframes :
       DetectBreakout(symbol, k, timeframe)
  \/ \E symbol \in Symbols, k \in MoveCases, timeframe \in Timeframes :
       DetectBreakoutMove(symbol, k, timeframe)

SpecDetector == InitDetector /\ [][NextDetector]_vars

----------------------------------------------------------------------------
(* Properties of the alert dispatcher and of the detector's cooldown *)

CooldownWindow == IF build = "stream" THEN alertCooldown ELSE getAlertCooldown

EventsOf(symbol) == {i \in DOMAIN events : events[i].symbol = symbol}

Handled == Len(events') = Len(events) + 1

LastEvent == events'[Len(events')]

C3_SuppressedIffCooling ==
  [][/\ Handled =>
          LET e == LastEvent
              cooling == /\ e.symbol \in DOMAIN lastAlerts
                         /\ now - lastAlerts[e.symbol].timestamp < CooldownWindow
              detectorCooling ==
                /\ e.symbol \in DOMAIN lastBreakoutAlerts
                /\ now - lastBreakoutAlerts[e.symbol].timestamp < BreakoutCooldown
              qualifies == e.valid /\ ~detectorCooling
          IN /\ cooling => (e.forwarded = 0 /\ lastAlerts' = lastAlerts)
             /\ (~cooling /\ qualifies) =>
                  /\ e.forwarded = 1
                  /\ e.symbol \in DOMAIN lastAlerts'
                  /\ lastAlerts'[e.symbol].timestamp = now
             /\ e.forwarded = 0 => lastAlerts' = lastAlerts
             /\ \A s \in Symbols \ {e.symbol} :
                  /\ (s \in DOMAIN lastAlerts') = (s \in DOMAIN lastAlerts)
                  /\ s \in DOMAIN lastAlerts => lastAlerts'[s] = lastAlerts[s]
     /\ ~Handled => lastAlerts' = lastAlerts
     /\ \A s \in DOMAIN lastAlerts :
          /\ s \in DOMAIN lastAlerts'
          /\ lastAlerts'[s].timestamp >= lastAlerts[s].timestamp]_vars

C3_Witness ==
  \E symbol \in Symbols : \E i, j, h \in EventsOf(symbol) :
    /\ i < j /\ j < h
    /\ events[i].forwarded = 1
    /\ events[j].valid /\ events[j].forwarded = 0
    /\ events[j].time - events[i].time < CooldownWindow
    /\ events[h].forwarded = 1
    /\ events[h].time - events[i].time >= CooldownWindow
    /\ lastAlerts[symbol].timestamp = events[h].time

(* C4: once detectBreakout has returned an alert for a symbol at time t,   *)
(* every call for that symbol before t + BREAKOUT_CONFIG.cooldown returns  *)
(* null, whatever the timeframe and the candle window.                     *)
C4_DetectorCooldown ==
  \A symbol \in Symbols : \A i, j \in EventsOf(symbol) :
    (i < j /\ events[i].forwarded > 0 /\ events[j].time < events[i].time + BreakoutCooldown)
      => events[j].forwarded = 0

C4_Witness ==
  \E symbol \in Symbols : \E i, j \in EventsOf(symbol) :
    /\ i < j
    /\ events[i].forwarded = 1
    /\ events[j].valid
    /\ events[j].time = events[i].time + 1
    /\ events[j].forwarded = 0

----------------------------------------------------------------------------
(* Market State Store.  An entry is [price, volume, marketCap, metrics];   *)
(* 0 stands for a field that is undefined; metrics is a function on the    *)
(* timeframes that have metrics.                                           *)

Undefined == 0

HasEntry(state, symbol) == symbol \in DOMAIN state

EntryOrBlank(state, symbol) ==
  IF HasEntry(state, symbol) THEN state[symbol]
  ELSE [price |-> Undefined, volume |-> Undefined, marketCap |-> Undefined,
        metrics |-> EmptyRecord, momentum |-> <<>>]

(* What fetchMarketData resolves to: a candle window with the ticker       *)
(* snapshot, or a rejection.  A window of fewer than two candles makes     *)
(* detectSignal throw; the others are classified by scoreTrend.            *)
Windows == {"short", "flat", "up"}

FetchOutcomes == {"fail"} \cup Windows

(* the outcomes with a window shorter than the indicator periods added *)
HistoryOutcomes == FetchOutcomes \cup {"brief"}

ServiceBuilds == {"service", "history"}

LastPrice == 3

MarketCap == 9

(* detectSignal on a window.  On a brief window (2 to 14 candles) every    *)
(* calculateRSI finds no moving average, takes both averages as 0 and      *)
(* returns 100, so scoreTrend gives bullish 3 + 2 + 1 and, prices not      *)
(* falling, the trend is bullish.                                          *)
TrendOf(window) == IF window \in {"up", "brief"} THEN "bullish" ELSE "neutral"

KlinesOf(window) ==
  IF window = "short" THEN KlineCase(FALSE, "up", TRUE, TRUE, TRUE, 10, FALSE)
  ELSE IF window = "brief" THEN KlineCase(FALSE, "none", TRUE, TRUE, TRUE, 2, FALSE)
  ELSE IF window = "up" THEN KlineCase(TRUE, "up", TRUE, TRUE, TRUE, 10, FALSE)
  ELSE KlineCase(TRUE, "none", TRUE, TRUE, TRUE, 2, FALSE)

(* marketState$.next({...currentState, [symbol]: {...currentState[symbol], *)
(*   symbol, price, marketCap, metrics: {...metrics, [timeframe]: m}}})    *)
writeMetricsOnlyThis(state, symbol, timeframe, m) ==
  Put(state, symbol,
      [EntryOrBlank(state, symbol) EXCEPT
         !.price = LastPrice,
         !.marketCap = MarketCap,
         !.metrics = Put(EmptyRecord, timeframe, m)])

writeMetrics(state, symbol, timeframe, m) ==
  Put(state, symbol,
      [EntryOrBlank(state, symbol) EXCEPT
         !.price = LastPrice,
         !.marketCap = MarketCap,
         !.metrics = Put(EntryOrBlank(state, symbol).metrics, timeframe, m)])

----------------------------------------------------------------------------
(* WebSocketService: the tick stream *)

TickMessages ==
  { [kind |-> "tick", symbol |-> sym, price |-> pv[1], volume |-> pv[2]] :
      sym \in Symbols, pv \in {<<1, 5>>, <<2, Undefined>>} }

ErrorMessage == [kind |-> "error", symbol |-> "BTCUSDT", price |-> 1, volume |-> 5]

MalformedMessage == [kind |-> "malformed", symbol |-> "BTCUSDT", price |-> 1, volume |-> 5]

Messages == TickMessages \cup {ErrorMessage, MalformedMessage}

Contains(seq, x) == \E i \in DOMAIN seq : seq[i] = x

processMessageDropsMetrics(state, data) ==
  IF data.kind = "error" THEN state
  ELSE Put(state, data.symbol,
           [EntryOrBlank(state, data.symbol) EXCEPT
              !.price = data.price,
              !.volume = IF data.volume # Undefined THEN data.volume
                         ELSE EntryOrBlank(state, data.symbol).volume,
              !.metrics = EmptyRecord])

processMessage(state, data) ==
  IF data.kind = "error" THEN state
  ELSE Put(state, data.symbol,
           [EntryOrBlank(state, data.symbol) EXCEPT
              !.price = data.price,
              !.volume = IF data.volume # Undefined THEN data.volume
                         ELSE EntryOrBlank(state, data.symbol).volume])

(* messages.forEach((msg) => this.processMessage(JSON.parse(msg))): a      *)
(* message that does not parse throws out of the forEach.                  *)
RECURSIVE forEachMessage(_, _, _)
forEachMessage(state, messages, i) ==
  IF i > Len(messages) THEN state
  ELSE IF messages[i].kind = "malformed" THEN state
  ELSE forEachMessage(processMessage(state, messages[i]), messages, i + 1)

(* the number of marketState$.next calls that forEach makes: one in every  *)
(* processMessage call that gets past the data.error test                  *)
RECURSIVE storeWrites(_, _)
storeWrites(messages, i) ==
  IF i > Len(messages) THEN 0
  ELSE IF messages[i].kind = "malformed" THEN 0
  ELSE IF messages[i].kind = "error" THEN storeWrites(messages, i + 1)
  ELSE 1 + storeWrites(messages, i + 1)

----------------------------------------------------------------------------
(* MarketSignalDetector.generateMarketSignal: null for no signals; isValid *)
(* is trendConfidence > 0.5, where the confidence is the larger of the     *)
(* bullish and the bearish share of the non-neutral signals (NaN, and so   *)
(* not valid, when there is none).                                         *)

Count(signals, trend) == Cardinality({i \in DOMAIN signals : signals[i] = trend})

generateMarketSignal(signals, symbol, t) ==
  IF signals = <<>> THEN <<>>
  ELSE LET bullish == Count(signals, "bullish")
           totalSignals == bullish + Count(signals, "bearish")
           larger == IF 2 * bullish > totalSignals THEN bullish ELSE totalSignals - bullish
       IN << [symbol |-> symbol, timestamp |-> t,
              isValid |-> totalSignals > 0 /\ 2 * larger > totalSignals] >>

----------------------------------------------------------------------------
(* MarketDataService.analyzeSymbol.  A call in flight is                   *)
(* [symbol, subscribed, loop, i, symbolMetrics, signals, found]: it awaits *)
(* the fetch of timeframe Configs[i] in the first (metrics) or the second  *)
(* (breakout) loop.  A step takes a world w = [cycle, marketState,         *)
(* marketSignals, lba, breakoutAlerts, rejected, done].                    *)

NewCycleSkipsFirst(symbol) ==
  [symbol |-> symbol, subscribed |-> TRUE, loop |-> 1, i |-> 2,
   symbolMetrics |-> EmptyRecord, signals |-> <<>>, found |-> <<>>]

NewCycle(symbol) ==
  [symbol |-> symbol, subscribed |-> TRUE, loop |-> 1, i |-> 1,
   symbolMetrics |-> EmptyRecord, signals |-> <<>>, found |-> <<>>]

(* catch (error) { console.error(...) }: the for loop goes on *)
rethrowUnit(w) == [w EXCEPT !.rejected = TRUE]

catchClearsMetrics(w) ==
  [w EXCEPT !.marketState =
     Put(@, w.cycle.symbol,
         [EntryOrBlank(w.marketState, w.cycle.symbol) EXCEPT !.metrics = EmptyRecord])]

catchUnit(w) == w

unitFirstLoop(w, outcome, t) ==
  LET timeframe == Configs[w.cycle.i]
      withMetrics == [w EXCEPT !.cycle.symbolMetrics = Put(@, timeframe, outcome)]
  IN IF outcome = "fail" THEN catchUnit(w)
     ELSE IF outcome = "short" THEN catchUnit(withMetrics)
     ELSE [withMetrics EXCEPT
             !.cycle.signals = Append(@, TrendOf(outcome)),
             !.marketState = writeMetrics(@, w.cycle.symbol, timeframe, outcome)]

unitSecondLoop(w, outcome, t) ==
  LET timeframe == Configs[w.cycle.i]
      symbol == w.cycle.symbol
  IN IF outcome = "fail" THEN catchUnit(w)
     ELSE IF timeframe \notin DOMAIN w.cycle.symbolMetrics
       THEN \* metrics is undefined: determineTrend(undefined) throws
            IF KlinesOf(outcome).enough /\ ~InCooldown(w.lba, symbol, t, BreakoutCooldown)
            THEN catchUnit(w) ELSE w
     ELSE LET r == detectBreakout(w.lba, symbol, KlinesOf(outcome), timeframe, t)
          IN IF r.alert # <<>>
             THEN [w EXCEPT !.lba = r.lba, !.cycle.found = Append(@, r.alert[1])]
             ELSE w

(* after the first loop: the aggregation and marketSignals$.next *)
aggregate(w, t) ==
  LET marketSignal == generateMarketSignal(w.cycle.signals, w.cycle.symbol, t)
  IN [w EXCEPT
        !.marketSignals = IF marketSignal # <<>> /\ marketSignal[1].isValid
                          THEN marketSignal
                          ELSE @,
        !.cycle.signals = <<>>,
        !.cycle.loop = 2,
        !.cycle.i = 1]

(* after the second loop: breakoutAlerts$.next([...currentAlerts, ...breakoutAlerts]) *)
finish(w) ==
  [w EXCEPT !.breakoutAlerts = IF w.cycle.found # <<>> THEN @ \o w.cycle.found ELSE @,
            !.done = TRUE]

resume(w, outcome, t) ==
  LET u == IF w.cycle.loop = 1 THEN unitFirstLoop(w, outcome, t)
           ELSE unitSecondLoop(w, outcome, t)
  IN IF u.rejected THEN u
     ELSE IF u.cycle.i < Len(Configs) THEN [u EXCEPT !.cycle.i = @ + 1]
     ELSE IF u.cycle.loop = 1 THEN aggregate(u, t)
     ELSE finish(u)

RemoveAt(seq, c) == [j \in 1..(Len(seq) - 1) |-> IF j < c THEN seq[j] ELSE seq[j + 1]]

World(c) ==
  [cycle |-> cycles[c], marketState |-> marketState, marketSignals |-> marketSignals,
   lba |-> lastBreakoutAlerts, breakoutAlerts |-> breakoutAlerts,
   rejected |-> FALSE, done |-> FALSE]

(* interval(UPDATE_FREQUENCY) fires for a symbol: switchMap unsubscribes   *)
(* from the previous inner observable (the promise behind it goes on) and  *)
(* calls analyzeSymbol, which runs up to its first await.                  *)
IntervalTick(symbol) ==
  /\ build \in ServiceBuilds
  /\ symbol \in due
  /\ symbol \in DOMAIN streamAlive
  /\ streamAlive[symbol]
  /\ started < MaxCycles
  /\ started' = started + 1
  /\ due' = due \ {symbol}
  /\ cycles' = Append([c \in DOMAIN cycles |->
                         IF cycles[c].symbol = symbol
                         THEN [cycles[c] EXCEPT !.subscribed = FALSE] ELSE cycles[c]],
                      NewCycle(symbol))
  /\ UNCHANGED <<now, build, lastAlerts, lastBreakoutAlerts, alertStream, breakoutAlerts, events>>
  /\ UNCHANGED <<marketState, streamAlive, marketSignals, messageQueue>>
  /\ UNCHANGED <<connectionVars, managerVars, limiterVars, proxyVars, signalVars>>

(* a fetchMarketData promise settles and the call in flight runs up to its *)
(* next await, or to its end.  A rejection of analyzeSymbol reaches        *)
(* catchError, which completes the symbol's stream.                        *)
FetchSettles(c, outcome) ==
  /\ build \in ServiceBuilds
  /\ c \in DOMAIN cycles
  /\ LET w == resume(World(c), outcome, now)
     IN /\ marketState' = w.marketState
        /\ marketSignals' = w.marketSignals
        /\ lastBreakoutAlerts' = w.lba
        /\ breakoutAlerts' = w.breakoutAlerts
        /\ cycles' = IF w.done \/ w.rejected THEN RemoveAt(cycles, c)
                     ELSE [cycles EXCEPT ![c] = w.cycle]
        /\ streamAlive' = IF w.rejected /\ w.cycle.subscribed
                          THEN [streamAlive EXCEPT ![w.cycle.symbol] = FALSE]
                          ELSE streamAlive
  /\ UNCHANGED <<now, build, lastAlerts, alertStream, events, due, messageQueue, started>>
  /\ UNCHANGED <<connectionVars, managerVars, limiterVars, proxyVars, signalVars>>

(* time passes; every UPDATE_FREQUENCY the interval of each live stream is due *)
Elapse ==
  /\ build \in ServiceBuilds
  /\ now < MaxTime
  /\ due = {} \/ started = MaxCycles
  /\ now' = now + 1
  /\ due' = IF (now + 1) % UpdateFrequency = 0
            THEN {symbol \in DOMAIN streamAlive : streamAlive[symbol]} ELSE {}
  /\ UNCHANGED <<build, lastAlerts, lastBreakoutAlerts, alertStream, breakoutAlerts, events>>
  /\ UNCHANGED <<marketState, cycles, streamAlive, marketSignals, messageQueue, started>>
  /\ UNCHANGED <<connectionVars, managerVars, limiterVars, proxyVars, signalVars>>

MaxArrivals == 3

(* WebSocketService.handleWebSocketMessage: messageQueue.add(event.data) *)
Receive(message) ==
  /\ build = "socket"
  /\ Len(events) < MaxArrivals
  /\ Len(messageQueue) < MaxQueue \/ Contains(messageQueue, message)
  /\ messageQueue' = IF Contains(messageQueue, message) THEN messageQueue
                     ELSE Append(messageQueue, message)
  /\ events' = Append(events, message)
  /\ UNCHANGED <<now, build, lastAlerts, lastBreakoutAlerts, alertStream, breakoutAlerts>>
  /\ UNCHANGED <<marketState, cycles, due, streamAlive, marketSignals, started>>
  /\ UNCHANGED <<connectionVars, managerVars, limiterVars, proxyVars, signalVars>>

(* the message processor's setInterval callback *)
Flush ==
  /\ build \in {"service", "socket"}
  /\ processing
  /\ messageQueue # <<>>
  /\ messageQueue' = <<>>
  /\ marketState' = forEachMessage(marketState, messageQueue, 1)
  /\ events' = <<>>
  /\ UNCHANGED <<now, build, lastAlerts, lastBreakoutAlerts, alertStream, breakoutAlerts>>
  /\ UNCHANGED <<cycles, due, streamAlive, marketSignals, started>>
  /\ UNCHANGED <<connectionVars, managerVars, limiterVars, proxyVars, signalVars>>

(* The analysis starts with one tick waiting in the message queue. *)
PendingTick == [kind |-> "tick", symbol |-> "ETHUSDT", price |-> 2, volume |-> 5]

(* new MarketDataService(s): the symbols handed to the constructor *)
ServiceSymbols == {{"BTCUSDT"}, Symbols}

InitService ==
  /\ build = "service"
  /\ now = 0
  /\ lastAlerts = EmptyRecord
  /\ lastBreakoutAlerts = EmptyRecord
  /\ alertStream = <<>>
  /\ breakoutAlerts = <<>>
  /\ events = <<>>
  /\ marketState = EmptyRecord
  /\ cycles = <<>>
  /\ due = {}
  /\ streamAlive \in {[s \in symbols |-> TRUE] : symbols \in ServiceSymbols}
  /\ marketSignals = <<>>
  /\ messageQueue = <<PendingTick>>
  /\ started = 0
  /\ InitConnectionIdle
  /\ InitManagerIdle
  /\ InitLimiterIdle
  /\ InitProxyIdle
  /\ InitSignalIdle

NextService ==
  \/ Elapse
  \/ \E symbol \in Symbols : IntervalTick(symbol)
  \/ \E c \in 1..MaxCycles, outcome \in FetchOutcomes : FetchSettles(c, outcome)
  \/ Flush

SpecService == InitService /\ [][NextService]_vars

(* The tick stream alone, over a store the analysis has or has not yet    *)
(* written to.                                                             *)
AnalysedStore ==
  writeMetrics(writeMetrics(EmptyRecord, "BTCUSDT", "5m", "up"), "BTCUSDT", "1h", "flat")

InitSocket ==
  /\ build = "socket"
  /\ now = 0
  /\ lastAlerts = EmptyRecord
  /\ lastBreakoutAlerts = EmptyRecord
  /\ alertStream = <<>>
  /\ breakoutAlerts = <<>>
  /\ events = <<>>
  /\ marketState \in {EmptyRecord, AnalysedStore}
  /\ cycles = <<>>
  /\ due = {}
  /\ streamAlive = [s \in Symbols |-> TRUE]
  /\ marketSignals = <<>>
  /\ messageQueue = <<>>
  /\ started = 0
  /\ InitConnectionIdle
  /\ InitManagerIdle
  /\ InitLimiterIdle
  /\ InitProxyIdle
  /\ InitSignalIdle

NextSocket ==
  \/ \E message \in Messages : Receive(message)
  \/ Flush

SpecSocket == InitSocket /\ [][NextSocket]_vars

----------------------------------------------------------------------------
(* The analysis of one symbol whose fetches may also return brief windows. *)

InitHistory ==
  /\ build = "history"
  /\ now = 0
  /\ lastAlerts = EmptyRecord
  /\ lastBreakoutAlerts = EmptyRecord
  /\ alertStream = <<>>
  /\ breakoutAlerts = <<>>
  /\ events = <<>>
  /\ marketState = EmptyRecord
  /\ cycles = <<>>
  /\ due = {}
  /\ streamAlive \in {[s \in {symbol} |-> TRUE] : symbol \in Symbols}
  /\ marketSignals = <<>>
  /\ messageQueue = <<>>
  /\ started = 0
  /\ InitConnectionIdle
  /\ InitManagerIdle
  /\ InitLimiterIdle
  /\ InitProxyIdle
  /\ InitSignalIdle

(* MarketDataService.cleanup(): destroy$.next(); destroy$.complete().     *)
(* Nothing subscribes to destroy$: the intervals of startAnalysis and the  *)
(* calls in flight are not touched.                                        *)
Cleanup ==
  /\ build = "history"
  /\ ~stopped
  /\ stopped' = TRUE
  /\ UNCHANGED <<now, build, lastAlerts, lastBreakoutAlerts, alertStream, breakoutAlerts, events>>
  /\ UNCHANGED serviceVars
  /\ UNCHANGED <<updateIntervals, timers, pending>>
  /\ UNCHANGED <<connectionVars, limiterVars, proxyVars, signalVars>>

NextHistory ==
  \/ Cleanup
  \/ Elapse
  \/ \E symbol \in Symbols : IntervalTick(symbol)
  \/ \E c \in 1..MaxCycles, outcome \in HistoryOutcomes : FetchSettles(c, outcome)

SpecHistory == InitHistory /\ [][NextHistory]_vars

----------------------------------------------------------------------------
(* MarketSignalDetector.generateMarketSignal on every list of timeframe    *)
(* signals: a call of analyzeSymbol that has collected `signals` and is    *)
(* about to aggregate them.                                                *)

MaxSignals == 4

ConfirmationMinimum == 2

Trends == {"bullish", "bearish", "neutral"}

RECURSIVE SignalLists(_)
SignalLists(n) ==
  IF n = 0 THEN {<<>>}
  ELSE SignalLists(n - 1) \cup
       {Append(signals, trend) : signals \in SignalLists(n - 1), trend \in Trends}

(* determineOverallTrend *)
determineOverallTrend(signals) ==
  IF /\ Count(signals, "bullish") > Count(signals, "bearish")
     /\ Count(signals, "bullish") > Count(signals, "neutral") THEN "bullish"
  ELSE IF /\ Count(signals, "bearish") > Count(signals, "bullish")
          /\ Count(signals, "bearish") > Count(signals, "neutral") THEN "bearish"
  ELSE "neutral"

(* const marketSignal = generateMarketSignal(signals, symbol); next if valid *)
Aggregate ==
  /\ build = "signal"
  /\ Len(cycles) = 1
  /\ cycles[1].loop = 1
  /\ LET w == aggregate(World(1), now)
     IN /\ marketSignals' = w.marketSignals
        /\ cycles' = <<w.cycle>>
  /\ UNCHANGED <<now, build, lastAlerts, lastBreakoutAlerts, alertStream, breakoutAlerts, events>>
  /\ UNCHANGED <<marketState, due, streamAlive, messageQueue, started>>
  /\ UNCHANGED <<connectionVars, managerVars, limiterVars, proxyVars, signalVars>>

InitSignal ==
  /\ build = "signal"
  /\ now \in 0..1
  /\ lastAlerts = EmptyRecord
  /\ lastBreakoutAlerts = EmptyRecord
  /\ alertStream = <<>>
  /\ breakoutAlerts = <<>>
  /\ events = <<>>
  /\ marketState = EmptyRecord
  /\ cycles \in {<<[NewCycle(symbol) EXCEPT !.i = Len(Configs), !.signals = signals]>> :
                   symbol \in Symbols, signals \in SignalLists(MaxSignals)}
  /\ due = {}
  /\ streamAlive = [s \in Symbols |-> TRUE]
  /\ marketSignals = <<>>
  /\ messageQueue = <<>>
  /\ started = 1
  /\ InitConnectionIdle
  /\ InitManagerIdle
  /\ InitLimiterIdle
  /\ InitProxyIdle
  /\ InitSignalIdle

NextSignal == Aggregate

SpecSignal == InitSignal /\ [][NextSignal]_vars

----------------------------------------------------------------------------
(* WebSocketService: the connection.  A connection state c is              *)
(* [sockets, reconnectAttempts, reconnectTimers, connectionStatus,         *)
(* processing].  A socket is [state, current, opened, disconnected]:       *)
(* current marks the one this.ws refers to, opened records that its open   *)
(* event was handled, disconnected that disconnect() closed it.            *)
(* A socket leaves `sockets` when its close event has been handled; a      *)
(* timeout leaves `reconnectTimers` when it fires or is cleared.           *)

MaxSockets == 2

MaxReconnectAttempts == 5

ReconnectDelay == 1

RECURSIVE Pow2(_)
Pow2(n) == IF n = 0 THEN 1 ELSE 2 * Pow2(n - 1)

Connection ==
  [sockets |-> sockets, reconnectAttempts |-> reconnectAttempts,
   reconnectTimers |-> reconnectTimers, connectionStatus |-> connectionStatus,
   processing |-> processing]

CommitConnection(c) ==
  /\ sockets' = c.sockets
  /\ reconnectAttempts' = c.reconnectAttempts
  /\ reconnectTimers' = c.reconnectTimers
  /\ connectionStatus' = c.connectionStatus
  /\ processing' = c.processing

Live(socket) == socket.state \in {"connecting", "open"}

(* connect(): returns if this.ws is OPEN, else this.ws = new WebSocket(...) *)
connect(c) ==
  IF \E i \in DOMAIN c.sockets : c.sockets[i].current /\ c.sockets[i].state = "open"
  THEN c
  ELSE [c EXCEPT !.sockets =
          Append([i \in DOMAIN c.sockets |-> [c.sockets[i] EXCEPT !.current = FALSE]],
                 [state |-> "connecting", current |-> TRUE, opened |-> FALSE,
                  disconnected |-> FALSE])]

handleReconnectUnbounded(c) ==
  [c EXCEPT !.reconnectAttempts = @ + 1,
            !.reconnectTimers =
               Append([j \in DOMAIN c.reconnectTimers |->
                         [c.reconnectTimers[j] EXCEPT !.handle = FALSE]],
                      [attempt |-> c.reconnectAttempts + 1,
                       delay |-> ReconnectDelay * Pow2(c.reconnectAttempts),
                       handle |-> TRUE])]

handleReconnect(c) ==
  IF c.reconnectAttempts < MaxReconnectAttempts
  THEN [c EXCEPT !.reconnectAttempts = @ + 1,
                 !.reconnectTimers =
                    Append([j \in DOMAIN c.reconnectTimers |->
                              [c.reconnectTimers[j] EXCEPT !.handle = FALSE]],
                           [attempt |-> c.reconnectAttempts + 1,
                            delay |-> ReconnectDelay * Pow2(c.reconnectAttempts),
                            handle |-> TRUE])]
  ELSE c

(* ws.onopen *)
onopen(c, i) ==
  [c EXCEPT !.sockets[i].state = "open",
            !.sockets[i].opened = TRUE,
            !.connectionStatus = TRUE,
            !.reconnectAttempts = 0]

(* ws.onerror: this.ws?.close() *)
onerror(c) ==
  [c EXCEPT !.sockets = [i \in DOMAIN c.sockets |->
                           IF c.sockets[i].current /\ Live(c.sockets[i])
                           THEN [c.sockets[i] EXCEPT !.state = "closing"]
                           ELSE c.sockets[i]]]

(* ws.onclose, for the socket at position i *)
oncloseKeepsStatus(c, i) ==
  handleReconnect([c EXCEPT !.sockets = RemoveAt(c.sockets, i)])

onclose(c, i) ==
  handleReconnect([c EXCEPT !.sockets = RemoveAt(c.sockets, i),
                            !.connectionStatus = FALSE])

(* disconnect() *)
disconnect(c) ==
  [c EXCEPT
     !.reconnectTimers = SelectSeq(c.reconnectTimers, LAMBDA timer : ~timer.handle),
     !.processing = FALSE,
     !.sockets = [i \in DOMAIN c.sockets |->
                    IF c.sockets[i].current
                    THEN [state |-> IF Live(c.sockets[i]) THEN "closing" ELSE c.sockets[i].state,
                          current |-> FALSE,
                          opened |-> c.sockets[i].opened,
                          disconnected |-> TRUE]
                    ELSE c.sockets[i]]]

UnchangedByConnection ==
  /\ UNCHANGED <<now, build, lastAlerts, lastBreakoutAlerts, alertStream, breakoutAlerts, events>>
  /\ UNCHANGED serviceVars
  /\ UNCHANGED <<managerVars, limiterVars, proxyVars, signalVars>>

(* a caller calls connect() *)
Connect ==
  /\ build = "connection"
  /\ Len(sockets) + Len(reconnectTimers) < MaxSockets
  /\ CommitConnection(connect(Connection))
  /\ UnchangedByConnection

(* the handshake of socket i succeeds *)
SocketOpens(i) ==
  /\ build = "connection"
  /\ i \in DOMAIN sockets
  /\ sockets[i].state = "connecting"
  /\ CommitConnection(onopen(Connection, i))
  /\ UnchangedByConnection

(* socket i fails: its error event, to be followed by its close event *)
SocketErrors(i) ==
  /\ build = "connection"
  /\ i \in DOMAIN sockets
  /\ Live(sockets[i])
  /\ CommitConnection(onerror([Connection EXCEPT !.sockets[i].state = "closing"]))
  /\ UnchangedByConnection

(* the close event of socket i: the peer closed it, or its closing ended *)
SocketCloses(i) ==
  /\ build = "connection"
  /\ i \in DOMAIN sockets
  /\ CommitConnection(onclose(Connection, i))
  /\ UnchangedByConnection

(* the reconnect timeout at position j fires *)
ReconnectFires(j) ==
  /\ build = "connection"
  /\ j \in DOMAIN reconnectTimers
  /\ CommitConnection(connect([Connection EXCEPT !.reconnectTimers = RemoveAt(@, j)]))
  /\ UnchangedByConnection

(* a caller calls disconnect() *)
Disconnect ==
  /\ build = "connection"
  /\ CommitConnection(disconnect(Connection))
  /\ UnchangedByConnection

InitConnection ==
  /\ build = "connection"
  /\ now = 0
  /\ lastAlerts = EmptyRecord
  /\ lastBreakoutAlerts = EmptyRecord
  /\ alertStream = <<>>
  /\ breakoutAlerts = <<>>
  /\ events = <<>>
  /\ marketState = EmptyRecord
  /\ cycles = <<>>
  /\ due = {}
  /\ streamAlive = [s \in Symbols |-> TRUE]
  /\ marketSignals = <<>>
  /\ messageQueue = <<>>
  /\ started = 0
  /\ InitConnectionIdle
  /\ InitManagerIdle
  /\ InitLimiterIdle
  /\ InitProxyIdle
  /\ InitSignalIdle

NextConnection ==
  \/ Connect
  \/ \E i \in 1..MaxSockets : SocketOpens(i)
  \/ \E i \in 1..MaxSockets : SocketErrors(i)
  \/ \E i \in 1..MaxSockets : SocketCloses(i)
  \/ \E j \in 1..MaxSockets : ReconnectFires(j)
  \/ Disconnect

SpecConnection == InitConnection /\ [][NextConnection]_vars

----------------------------------------------------------------------------
(* MarketDataManager.  timers[key] is the number of live intervals that    *)
(* call key, updateIntervals the keys whose interval the manager still     *)
(* holds a handle of, pending[key] the number of calls of key waiting for  *)
(* their fetch.                                                            *)

MaxSetups == 2

MaxPending == 1

ManagerAlertCooldown == 60

UpdateOutcomes == {"fail", "flat", "up"}

MomentumOutcomes == {"fail", "weak", "strong"}

(* updateMarketMetrics after its fetch: the store's entry, or the default  *)
(* symbolState, with the timeframe's metrics replaced                      *)
updateMarketMetrics(state, symbol, timeframe, m) ==
  Put(state, symbol,
      [EntryOrBlank(state, symbol) EXCEPT
         !.metrics = Put(EntryOrBlank(state, symbol).metrics, timeframe, m)])

(* shouldTriggerAlert(momentum, currentState[symbol]); reading metrics of  *)
(* a missing entry throws, which the callback's catch swallows             *)
shouldTriggerAlert(momentum, state, symbol, t) ==
  /\ momentum = "strong"
  /\ symbol \notin DOMAIN lastAlerts \/ t - lastAlerts[symbol].timestamp >= ManagerAlertCooldown
  /\ HasEntry(state, symbol)
  /\ Configs[1] \in DOMAIN state[symbol].metrics
  /\ state[symbol].metrics[Configs[1]] = "up"

UnchangedByManager ==
  /\ UNCHANGED <<now, build, lastBreakoutAlerts, breakoutAlerts, events>>
  /\ UNCHANGED <<cycles, due, streamAlive, marketSignals, messageQueue, started>>
  /\ UNCHANGED <<limiterVars, proxyVars, signalVars>>

(* initialize(): wsService.connect(); setupMetricsUpdates();               *)
(* setupMomentumDetection()                                                *)
Initialize ==
  /\ build = "manager"
  /\ ~stopped
  /\ \A symbol \in ManagerCoins : timers[MomentumKey(symbol)] < MaxSetups
  /\ CommitConnection(connect(Connection))
  /\ updateIntervals' = Pairs
  /\ timers' = [key \in TimerKeys |->
                  IF key \in Pairs
                  THEN (IF key \in updateIntervals THEN timers[key] - 1 ELSE timers[key]) + 1
                  ELSE timers[key] + 1]
  /\ pending' = [key \in TimerKeys |-> IF key \in Pairs THEN pending[key] + 1 ELSE pending[key]]
  /\ UNCHANGED <<marketState, lastAlerts, alertStream, stopped>>
  /\ UnchangedByManager

(* an interval of setupMetricsUpdates fires: updateMarketMetrics runs up   *)
(* to its fetch                                                            *)
MetricsTimerFires(key) ==
  /\ build = "manager"
  /\ key \in Pairs
  /\ timers[key] > 0
  /\ pending[key] < MaxPending
  /\ pending' = [pending EXCEPT ![key] = @ + 1]
  /\ UNCHANGED <<updateIntervals, timers, stopped, marketState, lastAlerts, alertStream>>
  /\ UNCHANGED connectionVars
  /\ UnchangedByManager

(* an interval of setupMomentumDetection fires: analyzeMarketConditions    *)
(* runs up to its first fetch                                              *)
MomentumTimerFires(symbol) ==
  /\ build = "manager"
  /\ symbol \in ManagerCoins
  /\ timers[MomentumKey(symbol)] > 0
  /\ pending[MomentumKey(symbol)] < MaxPending
  /\ pending' = [pending EXCEPT ![MomentumKey(symbol)] = @ + 1]
  /\ UNCHANGED <<updateIntervals, timers, stopped, marketState, lastAlerts, alertStream>>
  /\ UNCHANGED connectionVars
  /\ UnchangedByManager

(* the fetch of an updateMarketMetrics call settles *)
UpdateSettles(key, outcome) ==
  /\ build = "manager"
  /\ key \in Pairs
  /\ pending[key] > 0
  /\ pending' = [pending EXCEPT ![key] = @ - 1]
  /\ marketState' = IF outcome = "fail" THEN marketState
                    ELSE updateMarketMetrics(marketState, key[2], key[3], outcome)
  /\ UNCHANGED <<updateIntervals, timers, stopped, lastAlerts, alertStream>>
  /\ UNCHANGED connectionVars
  /\ UnchangedByManager

(* analyzeMarketConditions settles: the momentum is stored and the alert   *)
(* is decided on the entry read before the write                           *)
MomentumSettles(symbol, outcome) ==
  /\ build = "manager"
  /\ symbol \in ManagerCoins
  /\ pending[MomentumKey(symbol)] > 0
  /\ pending' = [pending EXCEPT ![MomentumKey(symbol)] = @ - 1]
  /\ marketState' = IF outcome = "fail" THEN marketState
                    ELSE Put(marketState, symbol,
                             [EntryOrBlank(marketState, symbol) EXCEPT !.momentum = <<outcome>>])
  /\ IF outcome # "fail" /\ shouldTriggerAlert(outcome, marketState, symbol, now)
     THEN /\ lastAlerts' = Put(lastAlerts, symbol, [symbol |-> symbol, timestamp |-> now])
          /\ alertStream' = <<[symbol |-> symbol, timestamp |-> now, type |-> "strong"]>>
     ELSE UNCHANGED <<lastAlerts, alertStream>>
  /\ UNCHANGED <<updateIntervals, timers, stopped>>
  /\ UNCHANGED connectionVars
  /\ UnchangedByManager

(* cleanup(): clears the intervals of updateIntervals and disconnects *)
CleanupManager ==
  /\ build = "manager"
  /\ ~stopped
  /\ timers' = [key \in TimerKeys |-> IF key \in updateIntervals THEN timers[key] - 1 ELSE timers[key]]
  /\ updateIntervals' = {}
  /\ CommitConnection(disconnect(Connection))
  /\ stopped' = TRUE
  /\ UNCHANGED <<pending, marketState, lastAlerts, alertStream>>
  /\ UnchangedByManager

InitManager ==
  /\ build = "manager"
  /\ now = 0
  /\ lastAlerts = EmptyRecord
  /\ lastBreakoutAlerts = EmptyRecord
  /\ alertStream = <<>>
  /\ breakoutAlerts = <<>>
  /\ events = <<>>
  /\ marketState = EmptyRecord
  /\ cycles = <<>>
  /\ due = {}
  /\ streamAlive = [s \in Symbols |-> TRUE]
  /\ marketSignals = <<>>
  /\ messageQueue = <<>>
  /\ started = 0
  /\ InitConnectionIdle
  /\ InitManagerIdle
  /\ InitLimiterIdle
  /\ InitProxyIdle
  /\ InitSignalIdle

NextManager ==
  \/ Initialize
  \/ \E key \in TimerKeys : MetricsTimerFires(key)
  \/ \E symbol \in ManagerCoins : MomentumTimerFires(symbol)
  \/ \E key \in TimerKeys, outcome \in UpdateOutcomes : UpdateSettles(key, outcome)
  \/ \E symbol \in ManagerCoins, outcome \in MomentumOutcomes : MomentumSettles(symbol, outcome)
  \/ CleanupManager

SpecManager == InitManager /\ [][NextManager]_vars

----------------------------------------------------------------------------
(* RateLimiter: a fixed window of windowMs with at most limit admissions.  *)
(* limit and windowMs are the constructor's arguments, scaled down; the    *)
(* clock of this build is `now`.  admissions records, for every call of    *)
(* the route, the time, the window it was counted in and the answer.       *)

limit == 3

windowMs == 3

MaxClock == 7

MaxCalls == 6

Limiter == [requests |-> requests, lastReset |-> lastReset]

refill(l, t) ==
  IF t - l.lastReset >= windowMs
  THEN [requests |-> 0, lastReset |-> t]
  ELSE l

checkLimitNeverRefuses(l, t) ==
  [requests |-> refill(l, t).requests + 1,
   lastReset |-> refill(l, t).lastReset,
   result |-> TRUE]

(* checkLimit() called at time t *)
checkLimit(l, t) ==
  IF refill(l, t).requests >= limit
  THEN [requests |-> refill(l, t).requests,
        lastReset |-> refill(l, t).lastReset,
        result |-> FALSE]
  ELSE [requests |-> refill(l, t).requests + 1,
        lastReset |-> refill(l, t).lastReset,
        result |-> TRUE]

UnchangedByLimiter ==
  /\ UNCHANGED <<build, lastAlerts, lastBreakoutAlerts, alertStream, breakoutAlerts, events>>
  /\ UNCHANGED serviceVars
  /\ UNCHANGED <<connectionVars, managerVars, proxyVars, signalVars>>

(* GET /api/klines: 429 when checkLimit() refuses *)
GetKlines ==
  /\ build = "limiter"
  /\ Len(admissions) < MaxCalls
  /\ requests' = checkLimit(Limiter, now).requests
  /\ lastReset' = checkLimit(Limiter, now).lastReset
  /\ admissions' = Append(admissions,
                          [at |-> now,
                           window |-> checkLimit(Limiter, now).lastReset,
                           status |-> IF checkLimit(Limiter, now).result THEN 200 ELSE 429])
  /\ UNCHANGED now
  /\ UnchangedByLimiter

(* the server's clock advances *)
ClockAdvances ==
  /\ build = "limiter"
  /\ now < MaxClock
  /\ now' = now + 1
  /\ UNCHANGED limiterVars
  /\ UnchangedByLimiter

InitLimiter ==
  /\ build = "limiter"
  /\ now = 0
  /\ lastAlerts = EmptyRecord
  /\ lastBreakoutAlerts = EmptyRecord
  /\ alertStream = <<>>
  /\ breakoutAlerts = <<>>
  /\ events = <<>>
  /\ marketState = EmptyRecord
  /\ cycles = <<>>
  /\ due = {}
  /\ streamAlive = [s \in Symbols |-> TRUE]
  /\ marketSignals = <<>>
  /\ messageQueue = <<>>
  /\ started = 0
  /\ InitConnectionIdle
  /\ InitManagerIdle
  /\ InitLimiterIdle
  /\ InitProxyIdle
  /\ InitSignalIdle

NextLimiter ==
  \/ GetKlines
  \/ ClockAdvances

SpecLimiter == InitLimiter /\ [][NextLimiter]_vars

(***************************************************************************)
(* The proxy's WebSocketHandler (server.ts): one handler per client, with  *)
(* the upstream socket this.binanceWs and the timer this.heartbeatInterval.*)
(* upstreams holds every upstream socket whose close event has not fired   *)
(* yet; heartbeats holds every interval that has not been cleared.  The    *)
(* error handler of an upstream socket only sends a message to the client  *)
(* and changes none of this state.                                         *)
(***************************************************************************)
MaxUpstreams == 4

Handler == [upstreams |-> upstreams, heartbeats |-> heartbeats]

UpstreamIds(sockets_) == {sockets_[i].id : i \in DOMAIN sockets_}

FreshId(sockets_) == CHOOSE id \in 1..MaxUpstreams :
  /\ id \notin UpstreamIds(sockets_)
  /\ \A other \in 1..MaxUpstreams : other \notin UpstreamIds(sockets_) => id <= other

NotHeld(heartbeat) == ~heartbeat.held

Release(heartbeat) == [heartbeat EXCEPT !.held = FALSE]

(* cleanup(): clearInterval(this.heartbeatInterval); this.binanceWs.close()
   and this.binanceWs = null *)
cleanup(h) ==
  [upstreams |-> [i \in DOMAIN h.upstreams |->
                    IF h.upstreams[i].current
                    THEN [h.upstreams[i] EXCEPT !.state = "closing", !.current = FALSE]
                    ELSE h.upstreams[i]],
   heartbeats |-> SelectSeq(h.heartbeats, NotHeld)]

(* handleSubscribe(): cleanup() when a socket is held, then a new socket,
   its handlers and a new heartbeat *)
handleSubscribe(h) ==
  LET cleared == IF \E i \in DOMAIN h.upstreams : h.upstreams[i].current
                 THEN cleanup(h) ELSE h
      id == FreshId(cleared.upstreams)
  IN [upstreams |-> Append(cleared.upstreams,
                           [id |-> id, state |-> "connecting", current |-> TRUE]),
      heartbeats |-> Append([i \in DOMAIN cleared.heartbeats |->
                               Release(cleared.heartbeats[i])],
                            [for |-> id, held |-> TRUE])]

Without(sequence, i) ==
  [j \in 1..(Len(sequence) - 1) |-> IF j < i THEN sequence[j] ELSE sequence[j + 1]]

UnchangedByProxy ==
  /\ UNCHANGED <<now, build, lastAlerts, lastBreakoutAlerts, alertStream, breakoutAlerts, events>>
  /\ UNCHANGED serviceVars
  /\ UNCHANGED <<connectionVars, managerVars, limiterVars, signalVars>>

CommitHandler(h) ==
  /\ upstreams' = h.upstreams
  /\ heartbeats' = h.heartbeats

(* ws.on("message"): a subscribe message of the client *)
Subscribe ==
  /\ build = "proxy"
  /\ clientOpen
  /\ Len(upstreams) < MaxUpstreams
  /\ CommitHandler(handleSubscribe(Handler))
  /\ UNCHANGED clientOpen
  /\ UnchangedByProxy

UpstreamOpens(i) ==
  /\ build = "proxy"
  /\ i \in DOMAIN upstreams
  /\ upstreams[i].state = "connecting"
  /\ upstreams' = [upstreams EXCEPT ![i].state = "open"]
  /\ UNCHANGED <<heartbeats, clientOpen>>
  /\ UnchangedByProxy

(* binanceWs.on("close"): the handler of socket i runs this.cleanup() *)
UpstreamCloses(i) ==
  /\ build = "proxy"
  /\ i \in DOMAIN upstreams
  /\ CommitHandler(cleanup([upstreams |-> Without(upstreams, i),
                            heartbeats |-> heartbeats]))
  /\ UNCHANGED clientOpen
  /\ UnchangedByProxy

(* ws.on("close") of the client: handler.cleanup() *)
ClientDisconnects ==
  /\ build = "proxy"
  /\ clientOpen
  /\ clientOpen' = FALSE
  /\ CommitHandler(cleanup(Handler))
  /\ UnchangedByProxy

InitProxy ==
  /\ build = "proxy"
  /\ now = 0
  /\ lastAlerts = EmptyRecord
  /\ lastBreakoutAlerts = EmptyRecord
  /\ alertStream = <<>>
  /\ breakoutAlerts = <<>>
  /\ events = <<>>
  /\ marketState = EmptyRecord
  /\ cycles = <<>>
  /\ due = {}
  /\ streamAlive = [s \in Symbols |-> TRUE]
  /\ marketSignals = <<>>
  /\ messageQueue = <<>>
  /\ started = 0
  /\ InitConnectionIdle
  /\ InitManagerIdle
  /\ InitLimiterIdle
  /\ upstreams = <<>>
  /\ heartbeats = <<>>
  /\ clientOpen = TRUE
  /\ InitSignalIdle

NextProxy ==
  \/ Subscribe
  \/ \E i \in 1..MaxUpstreams : UpstreamOpens(i)
  \/ \E i \in 1..MaxUpstreams : UpstreamCloses(i)
  \/ ClientDisconnects

SpecProxy == InitProxy /\ [][NextProxy]_vars

(***************************************************************************)
(* MomentumDetector (utils/services.ts): MarketMonitor holds one detector  *)
(* for all symbols.  The market is a snapshot that does not change: the    *)
(* daily candles of a symbol always give the volatility candles[symbol],   *)
(* in thousandths (baseVolatility 0.02 is 20).  signals, overallStrength   *)
(* and isValid of the result are computed from the fetched candles alone;  *)
(* the result keeps the field that is read from the detector's own state.  *)
(***************************************************************************)
MaxAnalyses == 3

MaxMomentumClock == 2

VolatilityLow == 16

VolatilityMedium == 20

VolatilityHigh == 24

Volatilities == {0, VolatilityLow, VolatilityMedium, VolatilityHigh}

determineVolatilityProfile(volatility) ==
  IF volatility < VolatilityLow THEN "low"
  ELSE IF volatility < VolatilityMedium THEN "medium"
  ELSE IF volatility < VolatilityHigh THEN "high"
  ELSE "extreme"

Detector == [lastVolatilityCheck |-> lastVolatilityCheck,
             currentVolatilityProfile |-> currentVolatilityProfile]

(* updateVolatilityProfile(symbol): at most one refresh per updateFrequency,
   from the daily candles of whichever symbol is being analysed *)
updateVolatilityProfile(d, symbol, t) ==
  IF t - d.lastVolatilityCheck < EnvironmentUpdateFrequency
  THEN d
  ELSE [lastVolatilityCheck |-> t,
        currentVolatilityProfile |-> determineVolatilityProfile(candles[symbol])]

UnchangedByMomentum ==
  /\ UNCHANGED <<build, lastAlerts, lastBreakoutAlerts, alertStream, breakoutAlerts, events>>
  /\ UNCHANGED serviceVars
  /\ UNCHANGED <<connectionVars, managerVars, limiterVars, proxyVars, candles>>

(* analyzeMarketConditions(symbol) *)
AnalyzeMarketConditions(symbol) ==
  /\ build = "momentum"
  /\ Len(computed) < MaxAnalyses
  /\ LET d == updateVolatilityProfile(Detector, symbol, now)
     IN /\ lastVolatilityCheck' = d.lastVolatilityCheck
        /\ currentVolatilityProfile' = d.currentVolatilityProfile
        /\ computed' = Append(computed,
             [symbol |-> symbol, volatilityProfile |-> d.currentVolatilityProfile])
  /\ UNCHANGED now
  /\ UnchangedByMomentum

MomentumClockAdvances ==
  /\ build = "momentum"
  /\ now < MaxMomentumClock
  /\ now' = now + 1
  /\ UNCHANGED <<lastVolatilityCheck, currentVolatilityProfile, computed>>
  /\ UnchangedByMomentum

InitMomentum ==
  /\ build = "momentum"
  /\ now = 0
  /\ lastAlerts = EmptyRecord
  /\ lastBreakoutAlerts = EmptyRecord
  /\ alertStream = <<>>
  /\ breakoutAlerts = <<>>
  /\ events = <<>>
  /\ marketState = EmptyRecord
  /\ cycles = <<>>
  /\ due = {}
  /\ streamAlive = [s \in Symbols |-> TRUE]
  /\ marketSignals = <<>>
  /\ messageQueue = <<>>
  /\ started = 0
  /\ InitConnectionIdle
  /\ InitManagerIdle
  /\ InitLimiterIdle
  /\ InitProxyIdle
  /\ lastVolatilityCheck = 0 - EnvironmentUpdateFrequency
  /\ currentVolatilityProfile = "medium"
  /\ candles \in [Symbols -> Volatilities]
  /\ computed = <<>>

NextMomentum ==
  \/ \E symbol \in Symbols : AnalyzeMarketConditions(symbol)
  \/ MomentumClockAdvances

SpecMomentum == InitMomentum /\ [][NextMomentum]_vars

(***************************************************************************)
(* MarketSignalDetector.detectSignal (services/MaketSignalDetector.ts) on  *)
(* a candle window of the 5m timeframe.  Quotients are kept as fractions   *)
(* [num, den] with den > 0 and compared by cross-multiplication.           *)
(***************************************************************************)
MaxCandles == 3

MaxPrice == 3

MaxVolume == 2

ShortPeriod == 14

MediumPeriod == 30

LongPeriod == 50

BasePeriod == 24

VolumeLookback == 12

VolumeChangeThreshold == 6

CandleSet == [open : 1..MaxPrice, close : 1..MaxPrice, volume : 1..MaxVolume]

CandleSeries == UNION {[1..n -> CandleSet] : n \in 2..MaxCandles}

LastOf(sequence, n) ==
  IF n >= Len(sequence) THEN sequence
  ELSE [i \in 1..n |-> sequence[Len(sequence) - n + i]]

RECURSIVE SumOf(_)
SumOf(sequence) ==
  IF sequence = <<>> THEN 0 ELSE Head(sequence) + SumOf(Tail(sequence))

ClosesOf(series) == [i \in DOMAIN series |-> series[i].close]

(* calculatePriceChange: ((end - start) / start) * 100 *)
calculatePriceChange(series) ==
  IF Len(series) < 2 THEN [num |-> 0, den |-> 1]
  ELSE [num |-> (series[Len(series)].close - series[1].close) * 100,
        den |-> series[1].close]

(* calculateRSI: the last moving average of the gains and of the losses
   (0 when there are fewer than period changes); 100 when avgLoss is 0,
   else 100 - 100 / (1 + avgGain / avgLoss) = 100 * avgGain / (avgGain +
   avgLoss).  The sums over the period stand for the averages. *)
calculateRSI(prices, period) ==
  LET changes == [i \in 1..(Len(prices) - 1) |-> prices[i + 1] - prices[i]]
      gains == [i \in DOMAIN changes |-> IF changes[i] > 0 THEN changes[i] ELSE 0]
      losses == [i \in DOMAIN changes |-> IF changes[i] < 0 THEN 0 - changes[i] ELSE 0]
      avgGain == IF Len(changes) < period THEN 0 ELSE SumOf(LastOf(gains, period))
      avgLoss == IF Len(changes) < period THEN 0 ELSE SumOf(LastOf(losses, period))
  IN IF avgLoss = 0 THEN [num |-> 100, den |-> 1]
     ELSE [num |-> 100 * avgGain, den |-> avgGain + avgLoss]

calculateMomentum(series) ==
  [shortTerm |-> calculateRSI(ClosesOf(series), ShortPeriod),
   mediumTerm |-> calculateRSI(LastOf(ClosesOf(series), BasePeriod * 2), MediumPeriod),
   longTerm |-> calculateRSI(LastOf(ClosesOf(series), BasePeriod * 4), LongPeriod)]

(* calculateVolumeProfile: the change from the first to the last of the
   recent volumes against 5 * volatilityMultiplier percent *)
calculateVolumeProfile(series) ==
  LET recent == LastOf(series, VolumeLookback)
      first == recent[1].volume
      last == recent[Len(recent)].volume
  IN IF Len(recent) < 2 THEN "stable"
     ELSE IF (last - first) * 100 > VolumeChangeThreshold * first THEN "increasing"
     ELSE IF (last - first) * 100 < (0 - VolumeChangeThreshold) * first THEN "decreasing"
     ELSE "stable"

(* calculateVolatility > 0.2: the annualized deviation of the log returns is
   0 when all returns are equal and far above 0.2 for any two different
   returns of prices in 1..MaxPrice *)
VolatilityPenalty(series) ==
  IF \E i, j \in 1..(Len(series) - 1) :
       series[i + 1].close * series[j].close # series[j + 1].close * series[i].close
  THEN 1 ELSE 0

detectCandlestickPatterns(series) ==
  LET n == Len(series)
      last == series[n]
      prev == series[n - 1]
      isBullishEngulfing ==
        prev.close < prev.open /\ last.close > prev.open /\ last.open < prev.close
      isMorningStar ==
        /\ n >= 3
        /\ series[n - 2].close < series[n - 2].open
        /\ prev.close < prev.open
        /\ last.close > last.open
      isBearishEngulfing ==
        prev.close > prev.open /\ last.close < prev.open /\ last.open > prev.close
      isEveningStar ==
        /\ n >= 3
        /\ series[n - 2].close > series[n - 2].open
        /\ prev.close > prev.open
        /\ last.close < last.open
  IN [bullish |-> isBullishEngulfing \/ isMorningStar,
      bearish |-> isBearishEngulfing \/ isEveningStar]

Above(fraction, k) == fraction.num > k * fraction.den

Below(fraction, k) == fraction.num < k * fraction.den

Weight(condition, weight) == IF condition THEN weight ELSE 0

(* scoreTrend: the scores are multiplied by the price change's denominator *)
scoreTrend(series) ==
  LET momentum == calculateMomentum(series)
      volume == calculateVolumeProfile(series)
      priceChange == calculatePriceChange(series)
      patterns == detectCandlestickPatterns(series)
      den == priceChange.den
      bullish ==
        den * ( Weight(Above(momentum.shortTerm, 70), 3)
              + Weight(Above(momentum.mediumTerm, 65), 2)
              + Weight(Above(momentum.longTerm, 60), 1)
              + Weight(volume = "increasing", 2)
              - VolatilityPenalty(series)
              + Weight(patterns.bullish, 2) )
        + Weight(priceChange.num > 0, priceChange.num)
      bearish ==
        den * ( Weight(Below(momentum.shortTerm, 30), 3)
              + Weight(Below(momentum.mediumTerm, 35), 2)
              + Weight(Below(momentum.longTerm, 40), 1)
              + Weight(volume = "decreasing", 2)
              - VolatilityPenalty(series)
              + Weight(patterns.bearish, 2) )
        + Weight(priceChange.num < 0, 0 - priceChange.num)
  IN IF bullish >= bearish /\ bullish >= 0 /\ bullish > 3 * den THEN "bullish"
     ELSE IF bearish >= bullish /\ bearish >= 0 /\ bearish > 3 * den THEN "bearish"
     ELSE "neutral"

(* detectSignal(klines, config): the metrics and the trend of the window *)
DetectSignal ==
  /\ build = "candles"
  /\ computed = <<>>
  /\ computed' = <<[priceChange |-> calculatePriceChange(candles),
                    trend |-> scoreTrend(candles)]>>
  /\ UNCHANGED <<now, lastVolatilityCheck, currentVolatilityProfile>>
  /\ UnchangedByMomentum

InitCandles ==
  /\ build = "candles"
  /\ now = 0
  /\ lastAlerts = EmptyRecord
  /\ lastBreakoutAlerts = EmptyRecord
  /\ alertStream = <<>>
  /\ breakoutAlerts = <<>>
  /\ events = <<>>
  /\ marketState = EmptyRecord
  /\ cycles = <<>>
  /\ due = {}
  /\ streamAlive = [s \in Symbols |-> TRUE]
  /\ marketSignals = <<>>
  /\ messageQueue = <<>>
  /\ started = 0
  /\ InitConnectionIdle
  /\ InitManagerIdle
  /\ InitLimiterIdle
  /\ InitProxyIdle
  /\ lastVolatilityCheck = 0 - EnvironmentUpdateFrequency
  /\ currentVolatilityProfile = "medium"
  /\ candles \in CandleSeries
  /\ computed = <<>>

NextCandles == DetectSignal

SpecCandles == InitCandles /\ [][NextCandles]_vars

(***************************************************************************)
(* The band detector's decision (part_013, detectBreakout) on a window of  *)
(* at least BOLLINGER_PERIOD + 2 candles, outside any cooldown.  A window  *)
(* is given by what the decision reads off it: the last two closes, the    *)
(* band computed from the closes, the highest high and the lowest low of   *)
(* the last five candles (which include the last two closes), the trend    *)
(* determineTrend finds in the metrics, and the volume and volatility      *)
(* confirmations.                                                          *)
(***************************************************************************)
MaxLevel == 4

BandWindows ==
  { w \in [currentPrice : 1..MaxLevel, previousPrice : 1..MaxLevel,
           upper : 1..MaxLevel, lower : 1..MaxLevel,
           recentHigh : 1..MaxLevel, recentLow : 1..MaxLevel,
           trend : {"bullish", "bearish", "neutral"},
           volumeConfirmation : BOOLEAN, volatilityConfirmation : BOOLEAN] :
      /\ w.lower <= w.upper
      /\ w.recentHigh >= w.currentPrice /\ w.recentHigh >= w.previousPrice
      /\ w.recentLow <= w.currentPrice /\ w.recentLow <= w.previousPrice }

confirmTrendAlignment(recentHigh, recentLow, upperBand, lowerBand, trend) ==
  LET bullish == recentHigh > upperBand
      bearish == recentLow < lowerBand
  IN CASE trend = "bullish" -> bullish
       [] trend = "bearish" -> bearish
       [] trend = "neutral" -> bullish \/ bearish
       [] OTHER -> FALSE

(* detectBreakout from the conditions on: the alert returned, if any *)
detectBreakoutBand(w) ==
  LET up == w.currentPrice > w.upper /\ w.previousPrice <= w.upper
      down == w.currentPrice < w.lower /\ w.previousPrice >= w.lower
      trendConfirmation ==
        confirmTrendAlignment(w.recentHigh, w.recentLow, w.upper, w.lower, w.trend)
      valid == /\ (up \/ down)
               /\ w.volumeConfirmation
               /\ trendConfirmation
               /\ w.volatilityConfirmation
  IN IF valid
     THEN <<[direction |-> IF up THEN "bullish" ELSE "bearish",
             trend |-> w.trend,
             currentPrice |-> w.currentPrice,
             priceAtBreakout |-> w.previousPrice]>>
     ELSE <<>>

DetectCrossing ==
  /\ build = "cross"
  /\ computed = <<>>
  /\ computed' = <<detectBreakoutBand(candles)>>
  /\ UNCHANGED <<now, lastVolatilityCheck, currentVolatilityProfile>>
  /\ UnchangedByMomentum

InitCross ==
  /\ build = "cross"
  /\ now = 0
  /\ lastAlerts = EmptyRecord
  /\ lastBreakoutAlerts = EmptyRecord
  /\ alertStream = <<>>
  /\ breakoutAlerts = <<>>
  /\ events = <<>>
  /\ marketState = EmptyRecord
  /\ cycles = <<>>
  /\ due = {}
  /\ streamAlive = [s \in Symbols |-> TRUE]
  /\ marketSignals = <<>>
  /\ messageQueue = <<>>
  /\ started = 0
  /\ InitConnectionIdle
  /\ InitManagerIdle
  /\ InitLimiterIdle
  /\ InitProxyIdle
  /\ lastVolatilityCheck = 0 - EnvironmentUpdateFrequency
  /\ currentVolatilityProfile = "medium"
  /\ candles \in BandWindows
  /\ computed = <<>>

NextCross == DetectCrossing

SpecCross == InitCross /\ [][NextCross]_vars

----------------------------------------------------------------------------
(* Properties of the connection *)

Opens ==
  \E i \in DOMAIN sockets :
    /\ sockets[i].state = "connecting"
    /\ Len(sockets') = Len(sockets)
    /\ sockets'[i].state = "open"

Closes == Len(sockets') < Len(sockets)

Exhausted ==
  /\ reconnectAttempts = MaxReconnectAttempts
  /\ reconnectTimers = <<>>
  /\ sockets = <<>>

BackoffBounded ==
  /\ reconnectAttempts \in 0..MaxReconnectAttempts
  /\ \A j \in DOMAIN reconnectTimers :
       /\ reconnectTimers[j].attempt \in 1..MaxReconnectAttempts
       /\ reconnectTimers[j].delay = ReconnectDelay * Pow2(reconnectTimers[j].attempt - 1)

BackoffStep ==
  /\ Opens => reconnectAttempts' = 0
  /\ Len(reconnectTimers') > Len(reconnectTimers) => reconnectAttempts' = reconnectAttempts + 1
  /\ reconnectAttempts = MaxReconnectAttempts => Len(reconnectTimers') <= Len(reconnectTimers)

(* C13: the reconnect counter never exceeds MAX_RECONNECT_ATTEMPTS, every   *)
(* scheduled attempt n waits RECONNECT_DELAY * 2^(n-1), every successful    *)
(* open resets the counter to 0, every scheduled attempt counts once, and   *)
(* once the counter is at the maximum no further attempt is scheduled.      *)
C13_BoundedBackoff == [](BackoffBounded) /\ [][BackoffStep]_vars

C13_Witness ==
  /\ build = "connection"
  /\ Exhausted
  /\ ~connectionStatus

----------------------------------------------------------------------------
(* Properties of the manager and of stopping *)

\* C11: the aggregation of a symbol (its momentum call settling) takes
\* place only when no metrics update of that symbol is still pending.
C11_AggregationAfterUpdates ==
  [][ \A symbol \in ManagerCoins :
        pending'[MomentumKey(symbol)] < pending[MomentumKey(symbol)]
        => \A i \in DOMAIN Configs : pending[MetricsKey(symbol, Configs[i])] = 0 ]_vars

\* C12: once monitoring is stopped no further cycle or call starts, and
\* neither the store nor the signal and alert streams change.
C12_StopDiscards ==
  [][ stopped =>
        /\ marketState' = marketState
        /\ marketSignals' = marketSignals
        /\ breakoutAlerts' = breakoutAlerts
        /\ alertStream' = alertStream
        /\ Len(cycles') <= Len(cycles)
        /\ \A key \in TimerKeys : pending'[key] <= pending[key] ]_vars

\* C18: no key has two live intervals, and while the manager is set up
\* every (symbol, timeframe) pair has exactly one.
C18_OneTaskPerKey ==
  /\ \A key \in TimerKeys : timers[key] <= 1
  /\ (build = "manager" /\ updateIntervals # {}) => \A key \in Pairs : timers[key] = 1

----------------------------------------------------------------------------
(* Properties of the rate limiter *)

AdmittedIn(w) ==
  Cardinality({i \in DOMAIN admissions :
                 admissions[i].window = w /\ admissions[i].status = 200})

Called == Len(admissions') = Len(admissions) + 1

WindowFull == requests >= limit /\ now - lastReset < windowMs

(* C15: between two consecutive resets of the counter at most `limit`      *)
(* calls are admitted; the counter never exceeds `limit`; a call made when *)
(* `limit` requests were admitted and windowMs has not elapsed since the   *)
(* last reset is answered 429 and leaves the counter and the reset time    *)
(* unchanged; a call made after windowMs has elapsed is admitted.          *)
C15_FixedWindow ==
  /\ [](requests \in 0..limit)
  /\ [](\A i \in DOMAIN admissions : AdmittedIn(admissions[i].window) <= limit)
  /\ [][Called /\ WindowFull =>
          /\ admissions'[Len(admissions')].status = 429
          /\ requests' = requests
          /\ lastReset' = lastReset]_vars
  /\ [][Called /\ ~WindowFull => admissions'[Len(admissions')].status = 200]_vars

C15_Witness ==
  /\ build = "limiter"
  /\ Len(admissions) = limit + 2
  /\ admissions[limit + 1].status = 429
  /\ admissions[limit + 2].status = 200
  /\ admissions[limit + 2].window > 0

(* the close event of a socket that disconnect() closed *)
ClosesDisconnected ==
  \E i \in DOMAIN sockets :
    /\ sockets[i].disconnected
    /\ sockets' = RemoveAt(sockets, i)

(* disconnect() was called and connect() has not been called since *)
Disconnected ==
  /\ ~processing
  /\ \A i \in DOMAIN sockets : sockets[i].disconnected

\* C25: the close event of a socket closed by disconnect() schedules no
\* reconnect, and while the service is disconnected no reconnect timeout
\* fires connect().
C25_DisconnectIsFinal ==
  [][ /\ ClosesDisconnected => Len(reconnectTimers') <= Len(reconnectTimers)
      /\ (Disconnected /\ Len(reconnectTimers') < Len(reconnectTimers))
           => Len(sockets') <= Len(sockets) ]_vars

\* C26: at most one socket of the service is connecting or open.
C26_OneLiveSocket ==
  Cardinality({i \in DOMAIN sockets : Live(sockets[i])}) <= 1

(* the calls admitted at a time in from..(from + windowMs - 1) *)
AdmittedWithin(from) ==
  Cardinality({i \in DOMAIN admissions :
                 /\ admissions[i].status = 200
                 /\ admissions[i].at >= from
                 /\ admissions[i].at < from + windowMs})

LiveUpstreams == {i \in DOMAIN upstreams : upstreams[i].state \in {"connecting", "open"}}

Survives(id) ==
  /\ \E j \in DOMAIN upstreams' :
       /\ upstreams'[j].id = id
       /\ upstreams'[j].current
       /\ upstreams'[j].state \in {"connecting", "open"}
  /\ \E k \in DOMAIN heartbeats' : heartbeats'[k].for = id

OtherUpstreamCloses(id) ==
  /\ clientOpen' = clientOpen
  /\ Len(upstreams') < Len(upstreams)
  /\ \E j \in DOMAIN upstreams' : upstreams'[j].id = id

\* C29: the upstream socket the handler holds, and its heartbeat, survive
\* the close event of any other (replaced) upstream socket, and at most one
\* upstream socket is live and at most one heartbeat interval runs.
C29_NewUpstreamSurvives ==
  /\ [][\A i \in DOMAIN upstreams :
          (upstreams[i].current /\ OtherUpstreamCloses(upstreams[i].id))
            => Survives(upstreams[i].id)]_vars
  /\ [](Cardinality(LiveUpstreams) <= 1 /\ Len(heartbeats) <= 1)

\* C24: two computations of the market signal of one symbol from the same
\* unchanged market snapshot give the same result, whatever other symbols
\* the detector analysed in between.
C24_Idempotent ==
  \A i, j \in DOMAIN computed :
    computed[i].symbol = computed[j].symbol
      => computed[i].volatilityProfile = computed[j].volatilityProfile

Flat(series) == \A i, j \in DOMAIN series : series[i].close = series[j].close

\* C21: for a candle window whose closes are all equal, detectSignal
\* computes a price change of 0 and the trend neutral.
C21_FlatIsNeutral ==
  \A i \in DOMAIN computed :
    (build = "candles" /\ Flat(candles))
      => (computed[i].priceChange.num = 0 /\ computed[i].trend = "neutral")

BreakoutTypes == {"short", "medium", "large", "extreme"}

\* C23: a move below the smallest threshold gives no alert and starts no
\* breakout cooldown: every alert the detector returned and recorded in
\* lastBreakoutAlerts has one of the four breakout types.
C23_BelowThresholdNoBreakout ==
  \A symbol \in DOMAIN lastBreakoutAlerts :
    lastBreakoutAlerts[symbol].breakoutType \in BreakoutTypes

Crossing(w) ==
  \/ w.currentPrice > w.upper /\ w.previousPrice <= w.upper
  \/ w.currentPrice < w.lower /\ w.previousPrice >= w.lower

\* C22: every alert of the band detector is a crossing of the band by the
\* last close, and its direction is the trend's whenever the trend is
\* bullish or bearish.
C22_DirectionFollowsTrend ==
  \A i \in DOMAIN computed :
    (build = "cross" /\ computed[i] # <<>>)
      => /\ Crossing(candles)
         /\ candles.trend # "neutral" => computed[i][1].direction = candles.trend

\* C30: in every interval of length windowMs, wherever it starts, at most
\* `limit` calls are admitted.
C30_SlidingWindow ==
  \A from \in 0..MaxClock : AdmittedWithin(from) <= limit

----------------------------------------------------------------------------
(* Properties of the analysis service and the tick stream *)

MetricsOf(state, symbol) == EntryOrBlank(state, symbol).metrics

(* the call at position c takes a step of its own *)
Advances(c) ==
  /\ c \in DOMAIN cycles
  /\ \/ /\ Len(cycles') = Len(cycles)
        /\ cycles'[c].loop # cycles[c].loop \/ cycles'[c].i # cycles[c].i
     \/ /\ Len(cycles') < Len(cycles)
        /\ cycles' = RemoveAt(cycles, c)

(* the call at position c leaves a first-loop unit through its catch block *)
FailedUnit(c) ==
  /\ Advances(c)
  /\ cycles[c].loop = 1
  /\ Len(cycles') = Len(cycles)
  /\ LET timeframe == Configs[cycles[c].i]
     IN \/ timeframe \notin DOMAIN cycles'[c].symbolMetrics
        \/ cycles'[c].symbolMetrics[timeframe] = "short"

\* C5: every event delivered on the market-signal and breakout-alert
\* streams passed validity, and is at least the dispatch cooldown away from
\* the other events delivered on that stream for the same symbol.
C5_DeliveriesSpaced ==
  [][ /\ marketSignals' # <<>> => marketSignals'[1].isValid
      /\ (/\ marketSignals # <<>>
          /\ marketSignals' # marketSignals
          /\ marketSignals'[1].symbol = marketSignals[1].symbol)
         => marketSignals'[1].timestamp - marketSignals[1].timestamp >= getAlertCooldown
      /\ \A i, j \in DOMAIN breakoutAlerts' :
           (i < j /\ breakoutAlerts'[i].symbol = breakoutAlerts'[j].symbol)
           => \/ breakoutAlerts'[j].timestamp - breakoutAlerts'[i].timestamp >= getAlertCooldown
              \/ breakoutAlerts'[i].timestamp - breakoutAlerts'[j].timestamp >= getAlertCooldown
    ]_vars

\* C6: a first-loop unit that fails (the fetch rejects or the computation
\* throws) leaves the store exactly as it was, and no step ever removes a
\* metrics entry the store holds.
C6_FailureKeepsMetrics ==
  [][ /\ (\E c \in DOMAIN cycles : FailedUnit(c)) => marketState' = marketState
      /\ \A symbol \in Symbols :
           /\ HasEntry(marketState, symbol) => HasEntry(marketState', symbol)
           /\ \A timeframe \in DOMAIN MetricsOf(marketState, symbol) :
                timeframe \in DOMAIN MetricsOf(marketState', symbol)
    ]_vars

(* the first unit of a call has failed, and the store still holds the     *)
(* metrics an earlier call wrote for that symbol and timeframe             *)
C6_Witness ==
  /\ build = "service"
  /\ \E c \in DOMAIN cycles :
       /\ cycles[c].loop = 1
       /\ cycles[c].i = 2
       /\ Configs[1] \notin DOMAIN cycles[c].symbolMetrics
       /\ Configs[1] \in DOMAIN MetricsOf(marketState, cycles[c].symbol)

\* C7: a failing unit ends neither its call nor the symbol's stream: every
\* stream stays alive, a call steps from each unit to the next one, and it
\* leaves only after the last unit of the second loop.
C7_FailureIsContained ==
  [][ /\ \A symbol \in DOMAIN streamAlive' : streamAlive'[symbol]
      /\ \A c \in DOMAIN cycles :
           Advances(c) =>
             IF cycles[c].loop = 2 /\ cycles[c].i = Len(Configs)
             THEN cycles' = RemoveAt(cycles, c)
             ELSE /\ Len(cycles') = Len(cycles)
                  /\ cycles'[c].symbol = cycles[c].symbol
                  /\ IF cycles[c].i < Len(Configs)
                     THEN cycles'[c].loop = cycles[c].loop /\ cycles'[c].i = cycles[c].i + 1
                     ELSE cycles'[c].loop = 2 /\ cycles'[c].i = 1
    ]_vars

(* a call whose first-loop units all failed is in its second loop while a *)
(* later call for the other symbol has stored its metrics                  *)
C7_Witness ==
  /\ build = "service"
  /\ started = 2
  /\ Len(cycles) = 2
  /\ cycles[1].loop = 2
  /\ cycles[1].i = 2
  /\ DOMAIN cycles[1].symbolMetrics = {}
  /\ cycles[2].symbol # cycles[1].symbol
  /\ DOMAIN MetricsOf(marketState, cycles[2].symbol) = {Configs[1], Configs[2]}
  /\ \A symbol \in DOMAIN streamAlive : streamAlive[symbol]

(* the call at position c leaves a first-loop unit whose fetch was refused *)
RefusedUnit(c) ==
  /\ Advances(c)
  /\ cycles[c].loop = 1
  /\ Len(cycles') = Len(cycles)
  /\ Configs[cycles[c].i] \notin DOMAIN cycles'[c].symbolMetrics

\* C16: a unit whose fetch is refused leaves the store and the symbol's
\* stream as they were and the call goes on to its next unit; every stream
\* stays alive, at every period every symbol is due again, and the call
\* started for a due symbol begins at the first timeframe with nothing
\* carried over, so every pair is fetched again.
C16_RefusalSkipsAndRetries ==
  [][ /\ \A c \in DOMAIN cycles :
           RefusedUnit(c) =>
             /\ marketState' = marketState
             /\ streamAlive' = streamAlive
             /\ cycles'[c].symbol = cycles[c].symbol
             /\ due' = due
      /\ \A symbol \in DOMAIN streamAlive' : streamAlive'[symbol]
      /\ (now' # now /\ now' % UpdateFrequency = 0) => due' = DOMAIN streamAlive
      /\ Len(cycles') > Len(cycles) =>
           /\ cycles'[Len(cycles')].symbol \in due
           /\ cycles'[Len(cycles')].loop = 1
           /\ cycles'[Len(cycles')].i = 1
           /\ cycles'[Len(cycles')].subscribed
           /\ DOMAIN cycles'[Len(cycles')].symbolMetrics = {}
    ]_vars

(* the first timeframe's fetch was refused in one call, and a later call   *)
(* for the same symbol has fetched that timeframe and stored its metrics   *)
C16_Witness ==
  /\ build = "service"
  /\ Len(cycles) = 2
  /\ cycles[1].symbol = cycles[2].symbol
  /\ cycles[1].loop = 2
  /\ Configs[1] \notin DOMAIN cycles[1].symbolMetrics
  /\ Configs[1] \in DOMAIN cycles[2].symbolMetrics
  /\ cycles[2].symbolMetrics[Configs[1]] # "short"
  /\ Configs[1] \in DOMAIN MetricsOf(marketState, cycles[2].symbol)

(* the symbols of the tick messages waiting in the queue *)
QueuedSymbols == {messageQueue[i].symbol : i \in {j \in DOMAIN messageQueue : messageQueue[j].kind = "tick"}}

\* C8: processing ticks changes only the price and the volume of the
\* symbols the ticks name: their metrics and market cap, and every other
\* symbol's entry, stay as they were.
C8_TickTouchesPriceVolume ==
  [][ build = "socket" =>
        \A symbol \in Symbols :
          /\ MetricsOf(marketState', symbol) = MetricsOf(marketState, symbol)
          /\ EntryOrBlank(marketState', symbol).marketCap = EntryOrBlank(marketState, symbol).marketCap
          /\ HasEntry(marketState, symbol) => HasEntry(marketState', symbol)
          /\ symbol \notin QueuedSymbols =>
               /\ HasEntry(marketState', symbol) = HasEntry(marketState, symbol)
               /\ EntryOrBlank(marketState', symbol) = EntryOrBlank(marketState, symbol)
    ]_vars

(* a tick has been applied to an entry that holds metrics *)
C8_Witness ==
  /\ build = "socket"
  /\ HasEntry(marketState, "BTCUSDT")
  /\ marketState["BTCUSDT"].price = 1
  /\ marketState["BTCUSDT"].volume = 5
  /\ DOMAIN marketState["BTCUSDT"].metrics = {"5m", "1h"}
  /\ messageQueue = <<>>

(* the number of signals that agree with the overall trend *)
Agreeing(signals) == Count(signals, determineOverallTrend(signals))

\* C19: a market signal is delivered as valid only if at least the
\* confirmation minimum of timeframe signals agree with the majority trend.
C19_ValidNeedsConfirmation ==
  [][ (build = "signal" /\ marketSignals' # <<>> /\ marketSignals'[1].isValid)
        => Agreeing(cycles[1].signals) >= ConfirmationMinimum ]_vars

\* C20: a first-loop unit whose window is brief (shorter than the indicator
\* periods) adds no timeframe signal to the signals of its call.
C20_BriefWindowExcluded ==
  [][ \A c \in DOMAIN cycles :
        (/\ Advances(c)
         /\ cycles[c].loop = 1
         /\ Len(cycles') = Len(cycles)
         /\ cycles'[c].loop = 1
         /\ Configs[cycles[c].i] \in DOMAIN cycles'[c].symbolMetrics
         /\ cycles'[c].symbolMetrics[Configs[cycles[c].i]] = "brief")
        => cycles'[c].signals = cycles[c].signals ]_vars

Flushes == messageQueue # <<>> /\ messageQueue' = <<>>

\* C17: a received message changes the store only at the next flush, and a
\* flush of more than one message performs fewer store writes than it has
\* messages (the writes of a flush do not grow by one per message).
C17_FlushWritesBounded ==
  [][ build = "socket" =>
        /\ ~Flushes => marketState' = marketState
        /\ (Flushes /\ Len(messageQueue) > 1) => storeWrites(messageQueue, 1) < Len(messageQueue)
    ]_vars

(* the price of the last tick for symbol among the messages received *)
RECURSIVE LastPriceOf(_, _, _)
LastPriceOf(received, symbol, i) ==
  IF i = 0 THEN Undefined
  ELSE IF received[i].kind = "tick" /\ received[i].symbol = symbol THEN received[i].price
  ELSE LastPriceOf(received, symbol, i - 1)

(* the store after every well-formed message of the batch was applied *)
RECURSIVE applyEach(_, _, _)
applyEach(state, messages, i) ==
  IF i > Len(messages) THEN state
  ELSE IF messages[i].kind = "malformed" THEN applyEach(state, messages, i + 1)
  ELSE applyEach(processMessage(state, messages[i]), messages, i + 1)

\* C27: after a flush of a batch of ticks, the store's price of every
\* symbol of the batch is the price of the last tick received for it.
C27_LastTickWins ==
  [][ (/\ build = "socket"
       /\ Flushes
       /\ \A i \in DOMAIN events : events[i].kind = "tick")
        => \A i \in DOMAIN events :
             /\ HasEntry(marketState', events[i].symbol)
             /\ marketState'[events[i].symbol].price =
                  LastPriceOf(events, events[i].symbol, Len(events)) ]_vars

\* C28: a malformed or error-carrying message of a batch affects only
\* itself: the flush applies every other message of the batch, and the
\* message processor stays on.
C28_BadMessageIsolated ==
  [][ (build = "socket" /\ Flushes)
        => /\ marketState' = applyEach(marketState, messageQueue, 1)
           /\ processing' ]_vars

(* the store after the call at position c has written timeframe's metrics *)
MetricsWritten(c, timeframe) ==
  /\ Len(cycles') = Len(cycles)
  /\ timeframe \in DOMAIN cycles'[c].symbolMetrics
  /\ LET symbol == cycles[c].symbol
         before == EntryOrBlank(marketState, symbol)
         after == EntryOrBlank(marketState', symbol)
     IN /\ HasEntry(marketState', symbol)
        /\ after.price = LastPrice
        /\ after.marketCap = MarketCap
        /\ after.volume = before.volume
        /\ DOMAIN after.metrics = DOMAIN before.metrics \cup {timeframe}
        /\ after.metrics[timeframe] = cycles'[c].symbolMetrics[timeframe]
        /\ \A other \in DOMAIN before.metrics \ {timeframe} :
             after.metrics[other] = before.metrics[other]
        /\ \A other \in Symbols \ {symbol} :
             /\ HasEntry(marketState', other) = HasEntry(marketState, other)
             /\ EntryOrBlank(marketState', other) = EntryOrBlank(marketState, other)

(* the store after the queued ticks have been applied *)
TicksApplied ==
  \A symbol \in Symbols :
    /\ MetricsOf(marketState', symbol) = MetricsOf(marketState, symbol)
    /\ EntryOrBlank(marketState', symbol).marketCap = EntryOrBlank(marketState, symbol).marketCap
    /\ symbol \notin QueuedSymbols =>
         /\ HasEntry(marketState', symbol) = HasEntry(marketState, symbol)
         /\ EntryOrBlank(marketState', symbol) = EntryOrBlank(marketState, symbol)

\* C9: every change of the store is one whole replacement made from the
\* store's current value: an analysis write adds exactly the metrics of the
\* unit that wrote, with price and market cap, to what the store held, and a
\* tick flush keeps all metrics; nothing another writer stored is lost.
C9_AtomicStoreUpdates ==
  [][ marketState' # marketState =>
        \/ \E c \in DOMAIN cycles :
             /\ Advances(c)
             /\ cycles[c].loop = 1
             /\ MetricsWritten(c, Configs[cycles[c].i])
        \/ /\ messageQueue # <<>>
           /\ messageQueue' = <<>>
           /\ TicksApplied
    ]_vars

(* both writers have written one entry, and both writes are in the store *)
C9_Witness ==
  /\ build = "service"
  /\ HasEntry(marketState, "ETHUSDT")
  /\ marketState["ETHUSDT"].volume = 5
  /\ marketState["ETHUSDT"].price = LastPrice
  /\ marketState["ETHUSDT"].marketCap = MarketCap
  /\ DOMAIN marketState["ETHUSDT"].metrics = {"5m", "1h"}
  /\ HasEntry(marketState, "BTCUSDT")

\* C10: at most one analysis call per symbol is in flight at any time.
C10_OneCycleInFlight ==
  \A c, d \in DOMAIN cycles : c # d => cycles[c].symbol # cycles[d].symbol

====
